---- MODULE Spec2Model ----
(***************************************************************************)
(* Tiny HP Monitor (scripts/hp-delta.mjs, debounced variant, lines         *)
(* 410-1156): the actor and item update hooks and the debounce maps, run   *)
(* by one client of the host.  The host's document store, its update       *)
(* operations and its timer queue are modelled as the environment of the   *)
(* hooks.  Of the actor's tracked fields the model carries hp and temp hp; *)
(* of an item, its quantity and its name.  Further specifications cover    *)
(* the recipients and the item deletion hooks (AudSpec), the module on two *)
(* clients (PeerSpec), failing host calls (FaultSpec) and the styling of   *)
(* the HP line under a damage system (ClassSpec), the resolution of the    *)
(* field locations (ResolveSpec) and worlds where a field has none         *)
(* (NullSpec), batches of items (BatchSpec), currency (CurrencySpec), spell *)
(* preparation (SpellSpec), the clipping of names (ClipSpec), the render   *)
(* hook (RenderSpec), the deletion of one item (DeleteSpec), an item       *)
(* updated and then deleted (ItemLifeSpec), one actor mutated by one user  *)
(* (ChainSpec), changing path settings (PathSpec) and vetoed mutations     *)
(* (VetoSpec).                                                             *)
(***************************************************************************)
EXTENDS Integers, Sequences, FiniteSets, TLC

\* ------------------------------------------------------------------ bounds
MaxVal  == 2      \* numeric field values are 0..MaxVal
MaxOps  == 2      \* document updates and deletions in one behaviour
TickMs  == 175    \* granularity of the passage of time
MaxHP   == 4      \* largest health value of the classification check
MaxCfgLen == 3    \* longest configured path string, in characters
MaxNameChars == 2 \* the budget MAX_NAME_CHARS of clipName, scaled down
MaxLabel == 4     \* longest name handed to clipName, in display characters

\* ------------------------------------------------------- program constants
DEBOUNCE_MS == 350

Null      == "null"
Actors    == {"a1", "a2"}
Items     == {"i1", "i2"}      \* items embedded in actor a1
Records   == Actors \cup Items
Users     == {"me", "other"}
GameUserId == "me"

\* A missing (null / non-numeric) raw field value; numbers are 0..MaxVal.
Missing   == 0 - 1
Values    == 0 .. MaxVal
RawValues == {Missing} \cup Values

FieldOrder == <<"hp", "temp">>
Fields     == {FieldOrder[i] : i \in 1 .. Len(FieldOrder)}

\* The blocks of processItemUpdate, in order
ItemFieldOrder == <<"qty", "name">>
ItemFields     == {ItemFieldOrder[i] : i \in 1 .. Len(ItemFieldOrder)}
ItemNames      == {0, 1}       \* a name is represented by its index in a list

VARIABLES
  docs,            \* the host's documents: docs[r][path] is a raw value
  op,              \* the host update operation in flight (or NoOp)
  nOps,            \* operations requested so far
  ACTOR_DEBOUNCE,  \* Map uuid -> pending {old..., timer}
  ITEM_UPDATE_STASH, \* WeakMap item -> {oldQty, oldName}
  ITEM_DEBOUNCE,   \* Map uuid -> pending {oldQty, oldName, timer}
  timers,          \* the host's armed timeouts: id -> [doc, left, pending]
  flushing,        \* process*Update calls suspended at an await
  sinceInsert,     \* time since the last insertion per record (capped)
  deleted,         \* actors the host has deleted (the objects stay readable)
  burst,           \* observation: the mutations merged into each open bucket
  nFlush,          \* observation: flushes started per record
  ev,              \* observation: what the last step did
  world,           \* the host's users, ownership of actor a1, its type, npcAudience
  ITEM_DELETE_STASH, \* WeakMap item -> {actor, whisper, name, qty, hasQty}
  peer             \* the module's state on the client of the other user

\* The update hooks and the debounce maps
coreVars == <<docs, op, nOps, ACTOR_DEBOUNCE, ITEM_UPDATE_STASH, ITEM_DEBOUNCE,
              timers, flushing, sinceInsert, burst, nFlush>>

\* The recipients and the item deletion hooks
auxVars == <<world, ITEM_DELETE_STASH, peer>>

vars == <<docs, op, nOps, ACTOR_DEBOUNCE, ITEM_UPDATE_STASH, ITEM_DEBOUNCE,
          timers, flushing, sinceInsert, deleted, burst, nFlush, ev,
          world, ITEM_DELETE_STASH, peer>>

\* ---------------------------------------------------------------- helpers
Min(a, b) == IF a < b THEN a ELSE b
Max(a, b) == IF a > b THEN a ELSE b

\* Map.set / Map.delete on a function whose domain is the set of keys present
MapSet(m, k, v) == [x \in (DOMAIN m) \cup {k} |-> IF x = k THEN v ELSE m[x]]
MapDelete(m, k) == [x \in (DOMAIN m) \ {k} |-> m[x]]
EmptyMap        == [x \in {} |-> 0]

\* detectSystemPaths for system id "dnd5e"
detectSystemPaths ==
  [hp   |-> "system.attributes.hp.value",
   temp |-> "system.attributes.hp.temp",
   damageSystem |-> FALSE]

\* resolvePaths(actor): the table of the world the module runs in
resolvePaths == world.paths

\* readNumber(doc, path): missing / non-numeric reads as 0
readNumber(doc, path) ==
  IF path = Null THEN 0
  ELSE IF path \in DOMAIN doc /\ doc[path] \in Values THEN doc[path] ELSE 0

\* (variant) a field without location counts as named by every update
willUpdatePathLoose(update, path) == path = Null \/ path \in DOMAIN update

\* willUpdatePath(update, path)
willUpdatePath(update, path) == path # Null /\ path \in DOMAIN update

\* (variant) every record shares one key
uuidShared(actor) == "a1"

\* actor.uuid, the key of ACTOR_DEBOUNCE
uuid(actor) == actor

\* ------------------------------------------------------- host environment
TrackedPaths == {detectSystemPaths[f] : f \in Fields}
OtherPath    == "name"

\* The values a host update may commit at a path (hp is always a number,
\* temp hp may be null).
PathValues(p) ==
  IF p = detectSystemPaths["hp"] THEN Values
  ELSE IF p = OtherPath THEN {0}
  ELSE RawValues

\* An update object names one path; its value is the value the host commits
\* (after clamping by the system's own rules), which may equal the old value.
ActorUpdates ==
  UNION {{[q \in {p} |-> v] : v \in PathValues(p)} :
           p \in TrackedPaths \cup {OtherPath}}

ItemOtherPath == "img"

ItemUpdates ==
  {[q \in {"system.quantity"} |-> v] : v \in Values}
    \cup {[q \in {"name"} |-> n] : n \in ItemNames}
    \cup {[q \in {ItemOtherPath} |-> 0]}

Updates(d) == IF d \in Items THEN ItemUpdates ELSE ActorUpdates

\* The documents of one operation: one document, or a batch of distinct
\* actors; the other user works on actor a1 and its item.  The second item
\* is updated in the item operations of ItemBatches only.
DocLists(u) ==
  IF u = GameUserId
  THEN {<<r>> : r \in Actors \cup {"i1"}} \cup {<<"a1", "a2">>}
  ELSE {<<"a1">>, <<"i1">>}

\* The item operations of the acting user: one item, or a batch of the two
ItemBatches == {<<"i1">>, <<"i2">>, <<"i1", "i2">>, <<"i2", "i1">>}

\* The items the deletion hooks are run on
DeletedItems == {"i1"}

\* The update objects an operation on documents ds may carry
UpdateLists(ds) ==
  {ups \in [1 .. Len(ds) -> ActorUpdates \cup ItemUpdates] :
     \A i \in 1 .. Len(ds) : ups[i] \in Updates(ds[i])}

NoOp == [phase |-> "idle"]

InitDoc(r) ==
  IF r \in Items
  THEN [p \in {"system.quantity", "name"} |->
          IF r = "i1" THEN (IF p = "name" THEN 0 ELSE 1)
          ELSE (IF p = "name" THEN 1 ELSE 2)]
  ELSE [p \in TrackedPaths |->
          IF p = detectSystemPaths["hp"] THEN (IF r = "a1" THEN 1 ELSE 2)
          ELSE (IF r = "a1" THEN Missing ELSE 0)]

NoEvent == [type |-> "none", rec |-> Null, msg |-> <<>>]

\* ------------------------------------------------------------ recipients
\* game.users, in the host's order
GameUsers == <<"me", "other", "guest">>
UserIds   == {GameUsers[i] : i \in 1 .. Len(GameUsers)}

\* What game.settings.get(MOD_ID, "npcAudience") may return (Null: null or
\* undefined)
Modes      == {Null, "gm", "gm-players", "gm-owners"}
ActorTypes == {"npc", "character"}

InitWorld ==
  [gm |-> {"me"}, owners |-> {"other"}, type |-> "character", mode |-> "gm-owners",
   paths |-> detectSystemPaths]

\* u.isGM
isGM(u) == u \in world.gm

\* actor.testUserPermission(u, OWNER): the host grants every permission to a
\* game master
testUserPermission(actor, u) == u \in world.owners \/ u \in world.gm

\* (variant) every actor is treated as a player character
ActorTypeCharacter(actor) == "character"

\* actor.type
ActorType(actor) == world.type

\* (variant) the lists are concatenated as they are
uniqConcat(list) == list

\* uniq(...lists) on the flattened lists: [...new Map(list.map(u => [u.id, u])).values()]
RECURSIVE uniq(_)
uniq(list) ==
  IF list = <<>> THEN <<>>
  ELSE LET front == uniq(SubSeq(list, 1, Len(list) - 1))
           u     == list[Len(list)]
       IN  IF \E i \in 1 .. Len(front) : front[i] = u THEN front
           ELSE Append(front, u)

\* function buildRecipients(actor)
buildRecipients(actor) ==
  LET mode    == IF world.mode = Null THEN "gm-owners" ELSE world.mode
      gmUsers == SelectSeq(GameUsers, LAMBDA u : isGM(u))
      owners  == SelectSeq(GameUsers, LAMBDA u : testUserPermission(actor, u))
      players == SelectSeq(GameUsers, LAMBDA u : ~isGM(u))
  IN  IF ActorType(actor) = "npc" /\ mode = "gm" THEN gmUsers
      ELSE IF ActorType(actor) = "npc" /\ mode = "gm-players"
           THEN uniq(gmUsers \o players)
      ELSE uniq(gmUsers \o owners)

CoreInit ==
  /\ docs = [r \in Records |-> InitDoc(r)]
  /\ op = NoOp
  /\ nOps = 0
  /\ ACTOR_DEBOUNCE = EmptyMap
  /\ ITEM_UPDATE_STASH = EmptyMap
  /\ ITEM_DEBOUNCE = EmptyMap
  /\ timers = EmptyMap
  /\ flushing = {}
  /\ sinceInsert = [r \in Records |-> DEBOUNCE_MS]
  /\ deleted = {}
  /\ burst = EmptyMap
  /\ nFlush = [r \in Records |-> 0]
  /\ ev = NoEvent
  /\ ITEM_DELETE_STASH = EmptyMap

\* The client of the other user: its ACTOR_DEBOUNCE map, the time left on
\* its timer (Missing: none armed), the operation it handled last, and the
\* committed changes its open bucket covers / its notifications reported.
InitPeer ==
  [ACTOR_DEBOUNCE |-> EmptyMap, left |-> Missing, seen |-> 0,
   cover |-> {}, posted |-> {}]

Init ==
  /\ CoreInit
  /\ world = InitWorld
  /\ peer = InitPeer

\* Document.update / Actor.updateDocuments requested by user u.  The pre
\* hooks run on the client of u; an actor's stash travels to every client in
\* the operation's options, an item's stash stays in the WeakMap of the
\* client of u.
RequestUpTo(limit, u, ds, ups) ==
  /\ op.phase = "idle"
  /\ nOps + Len(ds) <= limit
  /\ Len(ups) = Len(ds)
  /\ \A i \in 1 .. Len(ds) : ds[i] \notin deleted
  /\ op' = [phase |-> IF ds[1] \in Items /\ u # GameUserId
                      THEN "commit" ELSE "pre",
            user |-> u, docs |-> ds, updates |-> ups,
            i |-> 1, stash |-> <<>>,
            captured |-> IF ds[1] \in Items /\ u # GameUserId
                         THEN <<EmptyMap>> ELSE <<>>,
            prior |-> docs]
  /\ nOps' = nOps + Len(ds)
  /\ ev' = NoEvent
  /\ UNCHANGED <<docs, ACTOR_DEBOUNCE, ITEM_UPDATE_STASH, ITEM_DEBOUNCE, timers,
                 flushing, sinceInsert, deleted, burst, nFlush>>
  /\ UNCHANGED auxVars

\* (variant) a field is stashed only when the update changes its value
PreStashIfChanged(actor, update) ==
  LET will == {f \in Fields :
                 /\ willUpdatePath(update, resolvePaths[f])
                 /\ update[resolvePaths[f]] # docs[actor][resolvePaths[f]]}
  IN  [f \in will |-> readNumber(docs[actor], resolvePaths[f])]

Request(u, ds, ups) == RequestUpTo(MaxOps, u, ds, ups)

\* The stash written by the pre-update hook for one document:
\* options[MOD_ID] = { oldHP: willHP ? readNumber(..) : undefined, ... }
PreStash(actor, update) ==
  LET will == {f \in Fields : willUpdatePath(update, resolvePaths[f])}
  IN  [f \in will |-> readNumber(docs[actor], resolvePaths[f])]

\* What the hook leaves in the shared options object.
StashAfterPre(stash, actor, update) ==
  IF DOMAIN PreStash(actor, update) = {} THEN stash
  ELSE <<PreStash(actor, update)>>

\* (variant) the hook returns false when the update names no tracked
\* location: the host drops the operation
PreUpdateActorVeto ==
  /\ op.phase = "pre"
  /\ op.docs[op.i] \in Actors
  /\ LET actor  == op.docs[op.i]
         update == op.updates[op.i]
         last   == op.i = Len(op.docs)
     IN  op' = IF DOMAIN PreStash(actor, update) = {} THEN NoOp
               ELSE [op EXCEPT
                       !.stash = StashAfterPre(op.stash, actor, update),
                       !.captured = Append(op.captured, PreStash(actor, update)),
                       !.i = IF last THEN 1 ELSE op.i + 1,
                       !.phase = IF last THEN "commit" ELSE "pre"]
  /\ ev' = NoEvent
  /\ UNCHANGED <<docs, nOps, ACTOR_DEBOUNCE, ITEM_UPDATE_STASH, ITEM_DEBOUNCE,
                 timers, flushing, sinceInsert, deleted, burst, nFlush>>
  /\ UNCHANGED auxVars

\* Hooks.on("preUpdateActor")
PreUpdateActor ==
  /\ op.phase = "pre"
  /\ op.docs[op.i] \in Actors
  /\ LET actor  == op.docs[op.i]
         update == op.updates[op.i]
         last   == op.i = Len(op.docs)
     IN  op' = [op EXCEPT
                 !.stash = StashAfterPre(op.stash, actor, update),
                 !.captured = Append(op.captured, PreStash(actor, update)),
                 !.i = IF last THEN 1 ELSE op.i + 1,
                 !.phase = IF last THEN "commit" ELSE "pre"]
  /\ ev' = NoEvent
  /\ UNCHANGED <<docs, nOps, ACTOR_DEBOUNCE, ITEM_UPDATE_STASH, ITEM_DEBOUNCE,
                 timers, flushing, sinceInsert, deleted, burst, nFlush>>
  /\ UNCHANGED auxVars

ItemPath(f) == IF f = "qty" THEN "system.quantity" ELSE "name"

\* (variant) the old values are read from the first item of the batch
PreItemStashFirst(item, change, trackItems) ==
  LET will == {f \in ItemFields : trackItems /\ willUpdatePath(change, ItemPath(f))}
  IN  [f \in will |->
         IF f = "qty" THEN readNumber(docs[op.docs[1]], ItemPath(f))
         ELSE docs[op.docs[1]][ItemPath(f)]]

\* { oldQty: willQty ? (readNumber(item, "system.quantity") || 0) : undefined,
\*   oldName: willName ? String(item.name ?? "") : undefined }
PreItemStash(item, change, trackItems) ==
  LET will == {f \in ItemFields : trackItems /\ willUpdatePath(change, ItemPath(f))}
  IN  [f \in will |->
         IF f = "qty" THEN readNumber(docs[item], ItemPath(f))
         ELSE docs[item][ItemPath(f)]]

\* Hooks.on("preUpdateItem"); trackItems is the world setting it reads
PreUpdateItem(trackItems) ==
  /\ op.phase = "pre"
  /\ op.docs[op.i] \in Items
  /\ LET item   == op.docs[op.i]
         change == op.updates[op.i]
         last   == op.i = Len(op.docs)
         st     == PreItemStash(item, change, trackItems)
     IN  /\ ITEM_UPDATE_STASH' =
              IF DOMAIN st # {} THEN MapSet(ITEM_UPDATE_STASH, item, st)
              ELSE ITEM_UPDATE_STASH
         /\ op' = [op EXCEPT
                     !.captured = Append(op.captured, st),
                     !.i = IF last THEN 1 ELSE op.i + 1,
                     !.phase = IF last THEN "commit" ELSE "pre"]
  /\ ev' = NoEvent
  /\ UNCHANGED <<docs, nOps, ACTOR_DEBOUNCE, ITEM_DEBOUNCE, timers, flushing,
                 sinceInsert, deleted, burst, nFlush>>
  /\ UNCHANGED auxVars

\* The host writes the batch to the store.
ApplyUpdate(doc, update) ==
  [p \in DOMAIN doc |-> IF p \in DOMAIN update THEN update[p] ELSE doc[p]]

Commit ==
  /\ op.phase = "commit"
  /\ docs' = [a \in Records |->
               IF \E i \in 1 .. Len(op.docs) : op.docs[i] = a
               THEN ApplyUpdate(docs[a],
                      op.updates[CHOOSE i \in 1 .. Len(op.docs) : op.docs[i] = a])
               ELSE docs[a]]
  /\ op' = [op EXCEPT !.phase = "post", !.i = 1]
  /\ ev' = NoEvent
  /\ UNCHANGED <<nOps, ACTOR_DEBOUNCE, ITEM_UPDATE_STASH, ITEM_DEBOUNCE, timers,
                 flushing, sinceInsert, deleted, burst, nFlush>>
  /\ UNCHANGED auxVars

\* ------------------------------------------------------------ the timers
\* setTimeout: the handle is the smallest id not armed
NewTimerId(ts) == CHOOSE n \in 1 .. (Cardinality(DOMAIN ts) + 1) : n \notin DOMAIN ts

\* (variant) the armed timer is left running
clearTimeoutNoop(ts, id) == ts

\* if (pending.timer) clearTimeout(pending.timer)
clearTimeout(ts, id) == IF id \in DOMAIN ts THEN MapDelete(ts, id) ELSE ts

\* (variant) no timer is armed
setTimeoutNever(ts, doc, pendingOld) == ts

\* setTimeout(() => { processActorUpdate(actor, pending); ...delete(uuid) }, DEBOUNCE_MS)
setTimeout(ts, doc, pendingOld) ==
  MapSet(ts, NewTimerId(ts),
         [doc |-> doc, left |-> DEBOUNCE_MS, pending |-> pendingOld])

\* ACTOR_DEBOUNCE.get(uuid) ?? { oldHP: undefined, ..., timer: null }
GetPending(key) ==
  IF key \in DOMAIN ACTOR_DEBOUNCE THEN ACTOR_DEBOUNCE[key]
  ELSE [old |-> EmptyMap, timer |-> 0]

\* (variant) the latest payload wins
MergeOldLastWins(old, payload) ==
  [f \in (DOMAIN old) \cup (DOMAIN payload) |->
     IF f \in DOMAIN payload THEN payload[f] ELSE old[f]]

\* MERGE LOGIC: if (pending.oldX === undefined) pending.oldX = payload.oldX
MergeOld(old, payload) ==
  [f \in (DOMAIN old) \cup (DOMAIN payload) |->
     IF f \in DOMAIN old THEN old[f] ELSE payload[f]]

\* Observation: the order in which before values entered a bucket, after a
\* payload is merged (the merge statements run in the order of the fields)
OrderAfterInsert(order, payload, fieldOrder) ==
  order \o SelectSeq(fieldOrder,
                     LAMBDA f : /\ f \in DOMAIN payload
                                /\ \A i \in 1 .. Len(order) : order[i] # f)

\* Observation: the mutations merged into the bucket of record r so far
BurstAfterInsert(r, payload) ==
  MapSet(burst, r,
         IF r \in DOMAIN burst
         THEN [burst[r] EXCEPT
                 !.last = docs[r],
                 !.resets = IF sinceInsert[r] < DEBOUNCE_MS THEN 1 ELSE @,
                 !.order = OrderAfterInsert(@, payload,
                             IF r \in Items THEN ItemFieldOrder ELSE FieldOrder)]
         ELSE [first |-> op.prior[r], last |-> docs[r], resets |-> 0,
               order |-> OrderAfterInsert(<<>>, payload,
                           IF r \in Items THEN ItemFieldOrder ELSE FieldOrder)])

\* Hooks.on("updateActor"), one call of the host's loop over the batch
UpdateActor ==
  /\ op.phase = "post"
  /\ op.docs[op.i] \in Actors
  /\ LET actor == op.docs[op.i]
         key   == uuid(actor)
         last  == op.i = Len(op.docs)
         skip  == op.user # GameUserId \/ op.stash = <<>>
         payload == op.stash[1]
         pending == GetPending(key)
         cleared == clearTimeout(timers, pending.timer)
         merged  == MergeOld(pending.old, payload)
         armed   == setTimeout(cleared, actor, merged)
     IN  /\ op' = IF last THEN NoOp ELSE [op EXCEPT !.i = op.i + 1]
         /\ IF skip
            THEN /\ ev' = [type |-> "ignored", rec |-> actor, msg |-> <<>>]
                 /\ UNCHANGED <<ACTOR_DEBOUNCE, timers, sinceInsert, burst>>
            ELSE /\ timers' = armed
                 /\ ACTOR_DEBOUNCE' =
                      MapSet(ACTOR_DEBOUNCE, key,
                             [old |-> merged, timer |-> NewTimerId(cleared)])
                 /\ sinceInsert' = [sinceInsert EXCEPT ![actor] = 0]
                 /\ burst' = BurstAfterInsert(actor, payload)
                 /\ ev' = [type |-> "insert", rec |-> actor, msg |-> <<>>,
                           payload |-> payload,
                           captured |-> op.captured[op.i],
                           fresh |-> key \notin DOMAIN ACTOR_DEBOUNCE,
                           opens |-> actor \notin DOMAIN burst,
                           before |-> pending.old]
  /\ UNCHANGED <<docs, nOps, ITEM_UPDATE_STASH, ITEM_DEBOUNCE, flushing, deleted,
                 nFlush>>
  /\ UNCHANGED auxVars

\* ITEM_DEBOUNCE.get(uuid) ?? { oldQty: undefined, oldName: undefined, timer: null }
GetItemPending(key) ==
  IF key \in DOMAIN ITEM_DEBOUNCE THEN ITEM_DEBOUNCE[key]
  ELSE [old |-> EmptyMap, timer |-> 0]

\* Hooks.on("updateItem") for an item that is not a spell
UpdateItem ==
  /\ op.phase = "post"
  /\ op.docs[op.i] \in Items
  /\ LET item  == op.docs[op.i]
         key   == uuid(item)
         last  == op.i = Len(op.docs)
         has   == item \in DOMAIN ITEM_UPDATE_STASH
         stash == ITEM_UPDATE_STASH[item]
         pending == GetItemPending(key)
         cleared == clearTimeout(timers, pending.timer)
         merged  == MergeOld(pending.old, stash)
         armed   == setTimeout(cleared, item, merged)
     IN  /\ op' = IF last THEN NoOp ELSE [op EXCEPT !.i = op.i + 1]
         /\ IF op.user # GameUserId
            THEN /\ ev' = [type |-> "ignored", rec |-> item, msg |-> <<>>]
                 /\ UNCHANGED <<ITEM_UPDATE_STASH, ITEM_DEBOUNCE, timers,
                                sinceInsert, burst>>
            ELSE /\ ITEM_UPDATE_STASH' = MapDelete(ITEM_UPDATE_STASH, item)
                 /\ IF ~has
                    THEN /\ ev' = [type |-> "ignored", rec |-> item, msg |-> <<>>]
                         /\ UNCHANGED <<ITEM_DEBOUNCE, timers, sinceInsert, burst>>
                    ELSE /\ timers' = armed
                         /\ ITEM_DEBOUNCE' =
                              MapSet(ITEM_DEBOUNCE, key,
                                     [old |-> merged, timer |-> NewTimerId(cleared)])
                         /\ sinceInsert' = [sinceInsert EXCEPT ![item] = 0]
                         /\ burst' = BurstAfterInsert(item, stash)
                         /\ ev' = [type |-> "insert", rec |-> item, msg |-> <<>>,
                                   payload |-> stash,
                                   captured |-> op.captured[op.i],
                                   fresh |-> key \notin DOMAIN ITEM_DEBOUNCE,
                                   opens |-> item \notin DOMAIN burst,
                                   before |-> pending.old]
  /\ UNCHANGED <<docs, nOps, ACTOR_DEBOUNCE, flushing, deleted, nFlush>>
  /\ UNCHANGED auxVars

\* Time passes: every armed timeout gets closer to its deadline.
Tick ==
  /\ op.phase = "idle"
  /\ \E id \in DOMAIN timers : timers[id].left > 0
  /\ timers' = [id \in DOMAIN timers |->
                  [timers[id] EXCEPT !.left = Max(0, timers[id].left - TickMs)]]
  /\ sinceInsert' = [r \in Records |-> Min(DEBOUNCE_MS, sinceInsert[r] + TickMs)]
  /\ ev' = NoEvent
  /\ UNCHANGED <<docs, op, nOps, ACTOR_DEBOUNCE, ITEM_UPDATE_STASH, ITEM_DEBOUNCE,
                 flushing, deleted, burst, nFlush>>
  /\ UNCHANGED auxVars

\* ------------------------------------------------------------- the flush
\* (variant) the magnitude keeps the sign of the delta
AbsIdentity(delta) == delta

Sign(delta) == IF delta > 0 THEN "+" ELSE "-"
Abs(delta)  == IF delta < 0 THEN 0 - delta ELSE delta

\* `${damageSystem ? "Damage" : "HP"}`
HpLabel(damageSystem) == IF damageSystem THEN "Damage" ELSE "HP"

FieldLabel(f) ==
  IF f = "hp" THEN HpLabel(resolvePaths.damageSystem)
  ELSE "Temp"

\* isSimple ? `${label}: ${sign} ${abs}` : `${label}: ${old} ${sign} ${abs} -> ${new}`
DeltaText(label, isSimple, old, new) ==
  IF isSimple
  THEN [form |-> "simple", label |-> label,
        sign |-> Sign(new - old), abs |-> Abs(new - old)]
  ELSE [form |-> "full", label |-> label, old |-> old,
        sign |-> Sign(new - old), abs |-> Abs(new - old), new |-> new]

\* (variant) a rising value is always a gain
HpClassRising(damageSystem, delta) ==
  IF delta > 0 THEN "tiny-monitor-gain" ELSE "tiny-monitor-loss"

\* (damageSystem ? delta < 0 : delta > 0) ? "tiny-monitor-gain" : "tiny-monitor-loss"
HpClass(damageSystem, delta) ==
  IF (IF damageSystem THEN delta < 0 ELSE delta > 0)
  THEN "tiny-monitor-gain" ELSE "tiny-monitor-loss"

DeltaClass(f, delta) ==
  IF f = "hp"
  THEN HpClass(resolvePaths.damageSystem, delta)
  ELSE "tiny-monitor-temp"

\* item.parent
ItemParent(item) == "a1"

\* (variant) every quantity change is rendered as a delta line
ItemQtyTextPlain(label, isSimple, oldQty, newQty) ==
  DeltaText(label, isSimple, oldQty, newQty)

\* The text of the Quantity block of processItemUpdate
ItemQtyText(label, isSimple, oldQty, newQty) ==
  IF oldQty = 0 /\ newQty = 1 THEN [form |-> "added", label |-> label]
  ELSE IF oldQty = 1 /\ newQty = 0 THEN [form |-> "deleted", label |-> label]
  ELSE DeltaText(label, isSimple, oldQty, newQty)

ItemQtyClass(oldQty, newQty) ==
  IF newQty - oldQty > 0 THEN "tiny-monitor-item-inc" ELSE "tiny-monitor-item-dec"

\* (variant) the blocks run from the last to the first
OrderOfReversed(r) == IF r \in Items THEN <<"name", "qty">> ELSE <<"temp", "hp">>

\* The fields of a record's flush, in the order of its blocks, and their paths
OrderOf(r) == IF r \in Items THEN ItemFieldOrder ELSE FieldOrder
FieldPath(r, f) == IF r \in Items THEN ItemPath(f) ELSE resolvePaths[f]

\* The value of a field in a document, as the module reads it
ValueOf(doc, r, f) ==
  IF f = "name" THEN doc[FieldPath(r, f)] ELSE readNumber(doc, FieldPath(r, f))

\* (variant) the flush reports the value the record had at start-up
FlushReadStale(r, f) == ValueOf(InitDoc(r), r, f)

\* The value a flush reads for a field
FlushRead(r, f) == ValueOf(docs[r], r, f)

\* if (data.oldX !== undefined && path) { delta = new - old; if (delta !== 0) ...
\* if (data.oldQty !== undefined) { ... if (newQty !== oldQty) ...
\* if (data.oldName !== undefined && item.name !== data.oldName)
Reports(r, old, f) ==
  /\ f \in DOMAIN old
  /\ FieldPath(r, f) # Null
  /\ FlushRead(r, f) # old[f]

\* The chat message postMonitorMessage creates for one field
Message(r, old, f, isSimple) ==
  LET new == FlushRead(r, f)
  IN  IF r \in Actors
      THEN [actor |-> r, kind |-> f, old |-> old[f], new |-> new,
            text  |-> DeltaText(FieldLabel(f), isSimple, old[f], new),
            cls   |-> DeltaClass(f, new - old[f])]
      ELSE IF f = "qty"
      THEN [actor |-> ItemParent(r), kind |-> f, old |-> old[f], new |-> new,
            text  |-> ItemQtyText(docs[r]["name"], isSimple, old[f], new),
            cls   |-> ItemQtyClass(old[f], new)]
      ELSE [actor |-> ItemParent(r), kind |-> f, old |-> old[f], new |-> new,
            text  |-> [form |-> "rename", old |-> old[f], new |-> new],
            cls   |-> "tiny-monitor-item"]

\* A flush runs its blocks in order and suspends at the await of the first
\* message it posts: the index of that block, from block k on (0: it runs to
\* its end without posting).
NextPost(r, old, k) ==
  LET cand == {j \in k .. Len(OrderOf(r)) : Reports(r, old, OrderOf(r)[j])}
  IN  IF cand = {} THEN 0 ELSE CHOOSE j \in cand : \A x \in cand : j <= x

\* The blocks after block j that still have an old value to look at
Remaining(r, old, j) ==
  {x \in (j + 1) .. Len(OrderOf(r)) : OrderOf(r)[x] \in DOMAIN old}

Posted(r, old, j, isSimple) ==
  IF j = 0 THEN <<>> ELSE <<Message(r, old, OrderOf(r)[j], isSimple)>>

Suspended(r, old, j, seen) ==
  IF j # 0 /\ Remaining(r, old, j) # {}
  THEN {[doc |-> r, old |-> old, pc |-> j + 1, burst |-> seen]}
  ELSE {}

\* (variant) the bucket stays in the map
DeleteBucketKeep(m, key) == m

\* ACTOR_DEBOUNCE.delete(uuid) / ITEM_DEBOUNCE.delete(uuid), the last
\* statement of the timer callback
DeleteBucket(m, key) == MapDelete(m, key)

BurstOf(r) ==
  IF r \in DOMAIN burst THEN burst[r]
  ELSE [first |-> docs[r], last |-> docs[r], resets |-> 0, order |-> <<>>]

\* Observation of a flush that starts for record r with bucket data
FlushEvent(r, data, bucket, isSimple) ==
  [type |-> "flush", rec |-> r,
   msg |-> Posted(r, data, NextPost(r, data, 1), isSimple),
   data |-> data,
   bucket |-> bucket,
   burst |-> BurstOf(r),
   elapsed |-> sinceInsert[r],
   gone |-> r \in deleted]

\* The actor timer callback: processActorUpdate(actor, pending) up to its
\* first await, then ACTOR_DEBOUNCE.delete(uuid).
TimerFire(id, isSimple) ==
  /\ op.phase = "idle"
  /\ id \in DOMAIN timers
  /\ timers[id].left = 0
  /\ timers[id].doc \in Actors
  /\ LET t == timers[id]
         j == NextPost(t.doc, t.pending, 1)
     IN  /\ flushing' = flushing \cup Suspended(t.doc, t.pending, j, BurstOf(t.doc))
         /\ ev' = FlushEvent(t.doc, t.pending, GetPending(uuid(t.doc)).old, isSimple)
         /\ ACTOR_DEBOUNCE' = DeleteBucket(ACTOR_DEBOUNCE, uuid(t.doc))
         /\ burst' = MapDelete(burst, t.doc)
         /\ nFlush' = [nFlush EXCEPT ![t.doc] = @ + 1]
  /\ timers' = MapDelete(timers, id)
  /\ UNCHANGED <<docs, op, nOps, ITEM_UPDATE_STASH, ITEM_DEBOUNCE, sinceInsert,
                 deleted>>
  /\ UNCHANGED auxVars

\* The item timer callback: processItemUpdate(item, pending) up to its first
\* await, then ITEM_DEBOUNCE.delete(uuid).
ItemTimerFire(id, isSimple) ==
  /\ op.phase = "idle"
  /\ id \in DOMAIN timers
  /\ timers[id].left = 0
  /\ timers[id].doc \in Items
  /\ LET t == timers[id]
         j == NextPost(t.doc, t.pending, 1)
     IN  /\ IF ItemParent(t.doc) = Null
            THEN /\ flushing' = flushing
                 /\ ev' = [FlushEvent(t.doc, t.pending,
                                      GetItemPending(uuid(t.doc)).old, isSimple)
                             EXCEPT !.msg = <<>>]
            ELSE /\ flushing' = flushing \cup
                                  Suspended(t.doc, t.pending, j, BurstOf(t.doc))
                 /\ ev' = FlushEvent(t.doc, t.pending,
                                     GetItemPending(uuid(t.doc)).old, isSimple)
         /\ ITEM_DEBOUNCE' = DeleteBucket(ITEM_DEBOUNCE, uuid(t.doc))
         /\ burst' = MapDelete(burst, t.doc)
         /\ nFlush' = [nFlush EXCEPT ![t.doc] = @ + 1]
  /\ timers' = MapDelete(timers, id)
  /\ UNCHANGED <<docs, op, nOps, ACTOR_DEBOUNCE, ITEM_UPDATE_STASH, sinceInsert,
                 deleted>>
  /\ UNCHANGED auxVars

\* processActorUpdate / processItemUpdate resumes after the awaited
\* ChatMessage.create.
FlushResume(c, isSimple) ==
  /\ op.phase = "idle"
  /\ c \in flushing
  /\ LET j == NextPost(c.doc, c.old, c.pc)
     IN  /\ flushing' = (flushing \ {c}) \cup Suspended(c.doc, c.old, j, c.burst)
         /\ ev' = [type |-> "resume", rec |-> c.doc,
                   msg |-> Posted(c.doc, c.old, j, isSimple),
                   data |-> c.old,
                   burst |-> c.burst,
                   prev |-> OrderOf(c.doc)[c.pc - 1]]
  /\ UNCHANGED <<docs, op, nOps, ACTOR_DEBOUNCE, ITEM_UPDATE_STASH, ITEM_DEBOUNCE,
                 timers, sinceInsert, deleted, burst, nFlush>>
  /\ UNCHANGED auxVars

\* The host deletes an actor; the module has no hook on actor deletion.
DeleteActor(a) ==
  /\ op.phase = "idle"
  /\ nOps < MaxOps
  /\ a \in Actors
  /\ a \notin deleted
  /\ deleted' = deleted \cup {a}
  /\ nOps' = nOps + 1
  /\ ev' = NoEvent
  /\ UNCHANGED <<docs, op, ACTOR_DEBOUNCE, ITEM_UPDATE_STASH, ITEM_DEBOUNCE,
                 timers, flushing, sinceInsert, burst, nFlush>>
  /\ UNCHANGED auxVars

Next ==
  \/ \E u \in Users : \E ds \in DocLists(u) :
       \E ups \in UpdateLists(ds) : Request(u, ds, ups)
  \/ PreUpdateActor
  \/ \E trackItems \in BOOLEAN : PreUpdateItem(trackItems)
  \/ Commit
  \/ UpdateActor
  \/ UpdateItem
  \/ Tick
  \/ \E id \in DOMAIN timers, isSimple \in BOOLEAN : TimerFire(id, isSimple)
  \/ \E id \in DOMAIN timers, isSimple \in BOOLEAN : ItemTimerFire(id, isSimple)
  \/ \E c \in flushing, isSimple \in BOOLEAN : FlushResume(c, isSimple)
  \/ \E a \in Actors : DeleteActor(a)

Spec == Init /\ [][Next]_vars


\* ------------------------------------- recipients and the item deletion hooks
\* The host changes a user's role, the ownership of the actor, or the setting.
SetGM(u) ==
  /\ world' = [world EXCEPT !.gm = IF u \in @ THEN @ \ {u} ELSE @ \cup {u}]
  /\ ev' = NoEvent
  /\ UNCHANGED <<coreVars, deleted, ITEM_DELETE_STASH, peer>>

SetOwner(u) ==
  /\ world' = [world EXCEPT !.owners = IF u \in @ THEN @ \ {u} ELSE @ \cup {u}]
  /\ ev' = NoEvent
  /\ UNCHANGED <<coreVars, deleted, ITEM_DELETE_STASH, peer>>

SetMode(m) ==
  /\ m # world.mode
  /\ world' = [world EXCEPT !.mode = m]
  /\ ev' = NoEvent
  /\ UNCHANGED <<coreVars, deleted, ITEM_DELETE_STASH, peer>>

\* (variant) every message is whispered to the game masters
PostToGameMasters(actor) ==
  /\ ev' = [type |-> "post", rec |-> actor, msg |-> <<>>,
            whisper |-> SelectSeq(GameUsers, LAMBDA u : isGM(u)),
            by |-> "postMonitorMessage", at |-> world]
  /\ UNCHANGED <<coreVars, deleted, world, ITEM_DELETE_STASH, peer>>

\* async function postMonitorMessage(actor, line, cls, kind), called by a hook
\* or by one block of a flush: the whisper list of the message it creates
PostMonitorMessage(actor) ==
  /\ ev' = [type |-> "post", rec |-> actor, msg |-> <<>>,
            whisper |-> buildRecipients(actor), by |-> "postMonitorMessage",
            at |-> world]
  /\ UNCHANGED <<coreVars, deleted, world, ITEM_DELETE_STASH, peer>>

\* Hooks.on("preDeleteItem"); trackItems is the world setting it reads
PreDeleteItem(item, trackItems) ==
  /\ item \notin deleted
  /\ ITEM_DELETE_STASH' =
       IF ~trackItems THEN ITEM_DELETE_STASH
       ELSE MapSet(ITEM_DELETE_STASH, item,
                   [actor   |-> ItemParent(item),
                    whisper |-> buildRecipients(ItemParent(item)),
                    name    |-> docs[item]["name"],
                    qty     |-> readNumber(docs[item], "system.quantity"),
                    hasQty  |-> "system.quantity" \in DOMAIN docs[item],
                    at      |-> world])
  /\ ev' = NoEvent
  /\ UNCHANGED <<coreVars, deleted, world, peer>>

\* (variant) the deletion line is always the plain phrase
DeleteTextPlain(payload, isSimple) ==
  [form |-> "deleted", label |-> payload.name]

\* The text of the deletion line
DeleteText(payload, isSimple) ==
  IF ~payload.hasQty \/ payload.qty <= 1 \/ isSimple
  THEN [form |-> "deleted", label |-> payload.name]
  ELSE [form |-> "full", label |-> payload.name, old |-> payload.qty,
        sign |-> "-", abs |-> payload.qty, new |-> 0]

\* Hooks.on("deleteItem") after the host deleted the item for user u
DeleteItem(item, u, trackItems, isSimple) ==
  /\ item \notin deleted
  /\ deleted' = deleted \cup {item}
  /\ IF u # GameUserId \/ ~trackItems
     THEN /\ ev' = [type |-> "ignored", rec |-> item, msg |-> <<>>]
          /\ UNCHANGED ITEM_DELETE_STASH
     ELSE /\ ITEM_DELETE_STASH' = MapDelete(ITEM_DELETE_STASH, item)
          /\ IF item \notin DOMAIN ITEM_DELETE_STASH
             THEN ev' = [type |-> "ignored", rec |-> item, msg |-> <<>>]
             ELSE LET payload == ITEM_DELETE_STASH[item]
                  IN  IF payload.hasQty /\ payload.qty = 0
                      THEN ev' = [type |-> "ignored", rec |-> item, msg |-> <<>>]
                      ELSE ev' = [type |-> "post", rec |-> payload.actor,
                                  item |-> item,
                                  msg |-> <<[actor |-> payload.actor, kind |-> "item",
                                            text |-> DeleteText(payload, isSimple),
                                            cls |-> "tiny-monitor-item-dec"]>>,
                                  whisper |-> payload.whisper, by |-> "deleteItem",
                                  at |-> payload.at]
  /\ UNCHANGED <<coreVars, world, peer>>

AudInit ==
  /\ CoreInit
  /\ world \in [gm : {{"me"}}, owners : {{"other"}}, type : ActorTypes,
                mode : {"gm-owners"}]
  /\ peer = InitPeer

AudNext ==
  \/ \E u \in {"me", "other"} : SetGM(u)
  \/ \E u \in {"other", "guest"} : SetOwner(u)
  \/ \E m \in Modes : SetMode(m)
  \/ PostMonitorMessage("a1")
  \/ \E item \in DeletedItems, trackItems \in BOOLEAN :
       PreDeleteItem(item, trackItems)
  \/ \E item \in DeletedItems, u \in Users, trackItems, isSimple \in BOOLEAN :
       DeleteItem(item, u, trackItems, isSimple)

AudSpec == AudInit /\ [][AudNext]_vars

\* ------------------------------------------------- a second client
\* game.userId on the client of the other user
PeerUserId == "other"

\* The tracked fields whose value, as the module reads it, the committed
\* operation changed
ChangedFields(actor) ==
  {f \in Fields : ValueOf(docs[actor], actor, f) # ValueOf(op.prior[actor], actor, f)}

\* Observation: the flush generation of this client's open bucket of the
\* actor if it holds a before value of field f (Missing: it holds none)
OpenGeneration(actor, f) ==
  IF uuid(actor) \in DOMAIN ACTOR_DEBOUNCE
     /\ f \in DOMAIN ACTOR_DEBOUNCE[uuid(actor)].old
  THEN nFlush[actor] ELSE Missing

\* Hooks.on("updateActor") on the other user's client: the same operation,
\* with its options, is delivered to every client.
PeerUpdateActor ==
  /\ op.phase = "post"
  /\ op.docs[op.i] \in Actors
  /\ peer.seen # nOps
  /\ LET actor   == op.docs[op.i]
         key     == uuid(actor)
         skip    == op.user # PeerUserId \/ op.stash = <<>>
         payload == op.stash[1]
         pending == IF key \in DOMAIN peer.ACTOR_DEBOUNCE
                    THEN peer.ACTOR_DEBOUNCE[key] ELSE EmptyMap
         covered == {[id |-> nOps, rec |-> actor, f |-> f,
                      gen |-> OpenGeneration(actor, f)] : f \in ChangedFields(actor)}
     IN  IF skip
         THEN /\ peer' = [peer EXCEPT !.seen = nOps]
              /\ ev' = [type |-> "ignored", rec |-> actor, msg |-> <<>>]
         ELSE /\ peer' = [peer EXCEPT
                            !.ACTOR_DEBOUNCE = MapSet(@, key, MergeOld(pending, payload)),
                            !.left = DEBOUNCE_MS,
                            !.seen = nOps,
                            !.cover = @ \cup covered]
              /\ ev' = [type |-> "peer-insert", rec |-> actor, msg |-> <<>>]
  /\ UNCHANGED <<coreVars, deleted, world, ITEM_DELETE_STASH>>

\* Time passes on both clients.
PeerTick ==
  /\ op.phase = "idle"
  /\ (\E id \in DOMAIN timers : timers[id].left > 0) \/ peer.left > 0
  /\ timers' = [id \in DOMAIN timers |->
                  [timers[id] EXCEPT !.left = Max(0, timers[id].left - TickMs)]]
  /\ sinceInsert' = [r \in Records |-> Min(DEBOUNCE_MS, sinceInsert[r] + TickMs)]
  /\ peer' = [peer EXCEPT !.left = IF @ > 0 THEN Max(0, @ - TickMs) ELSE @]
  /\ ev' = NoEvent
  /\ UNCHANGED <<docs, op, nOps, ACTOR_DEBOUNCE, ITEM_UPDATE_STASH, ITEM_DEBOUNCE,
                 flushing, deleted, burst, nFlush, world, ITEM_DELETE_STASH>>

\* The lines a flush of record r with bucket data posts when nothing runs
\* between its awaits
AllLines(r, old, isSimple) ==
  LET sel == SelectSeq(OrderOf(r), LAMBDA f : Reports(r, old, f))
  IN  [i \in 1 .. Len(sel) |-> Message(r, old, sel[i], isSimple)]

\* The timer callback on the other user's client: processActorUpdate and
\* ACTOR_DEBOUNCE.delete(uuid).
PeerTimerFire(actor, isSimple) ==
  /\ op.phase = "idle"
  /\ peer.left = 0
  /\ uuid(actor) \in DOMAIN peer.ACTOR_DEBOUNCE
  /\ LET old == peer.ACTOR_DEBOUNCE[uuid(actor)]
     IN  /\ ev' = [type |-> "peer-flush", rec |-> actor,
                   msg |-> AllLines(actor, old, isSimple), data |-> old]
         /\ peer' = [peer EXCEPT
                       !.ACTOR_DEBOUNCE = DeleteBucket(@, uuid(actor)),
                       !.left = Missing,
                       !.cover = {},
                       !.posted = @ \cup {c \in peer.cover : Reports(actor, old, c.f)}]
  /\ UNCHANGED <<coreVars, deleted, world, ITEM_DELETE_STASH>>

\* Two users, each on a client running the module, work on actor a1.
PeerNext ==
  \/ \E u \in Users : \E ups \in UpdateLists(<<"a1">>) : Request(u, <<"a1">>, ups)
  \/ PreUpdateActor
  \/ Commit
  \/ UpdateActor
  \/ PeerUpdateActor
  \/ PeerTick
  \/ \E id \in DOMAIN timers, isSimple \in BOOLEAN : TimerFire(id, isSimple)
  \/ \E c \in flushing, isSimple \in BOOLEAN : FlushResume(c, isSimple)
  \/ \E isSimple \in BOOLEAN : PeerTimerFire("a1", isSimple)

PeerSpec == Init /\ [][PeerNext]_vars

\* ------------------------------------------------- failing host calls
\* A host call made by a callback throws or rejects (game.settings.get and
\* testUserPermission in buildRecipients, ChatMessage.create).  No callback
\* and no process* function of the module has a try/catch around its body,
\* so the exception leaves the callback (or rejects the promise of the async
\* function, which nobody awaits) and the module logs nothing.  prev is the
\* block whose line this invocation had already posted (Null: none).
Thrown(callback, rec, prev) ==
  [type |-> "throw", rec |-> rec, msg |-> <<>>, from |-> callback,
   caught |-> FALSE, logged |-> FALSE, prev |-> prev]

\* The actor timer callback when the first postMonitorMessage of
\* processActorUpdate fails: the async function rejects, the callback goes on
\* to ACTOR_DEBOUNCE.delete(uuid).
TimerFireFails(id) ==
  /\ op.phase = "idle"
  /\ id \in DOMAIN timers
  /\ timers[id].left = 0
  /\ timers[id].doc \in Actors
  /\ NextPost(timers[id].doc, timers[id].pending, 1) # 0
  /\ LET t == timers[id]
     IN  /\ ev' = Thrown("processActorUpdate", t.doc, Null)
         /\ ACTOR_DEBOUNCE' = DeleteBucket(ACTOR_DEBOUNCE, uuid(t.doc))
         /\ burst' = MapDelete(burst, t.doc)
         /\ nFlush' = [nFlush EXCEPT ![t.doc] = @ + 1]
  /\ timers' = MapDelete(timers, id)
  /\ UNCHANGED <<docs, op, nOps, ITEM_UPDATE_STASH, ITEM_DEBOUNCE, sinceInsert,
                 deleted, flushing>>
  /\ UNCHANGED auxVars

\* processActorUpdate resumes after an awaited post and the
\* postMonitorMessage of a later block fails.
FlushResumeFails(c) ==
  /\ op.phase = "idle"
  /\ c \in flushing
  /\ NextPost(c.doc, c.old, c.pc) # 0
  /\ flushing' = flushing \ {c}
  /\ ev' = Thrown("processActorUpdate", c.doc, OrderOf(c.doc)[c.pc - 1])
  /\ UNCHANGED <<docs, op, nOps, ACTOR_DEBOUNCE, ITEM_UPDATE_STASH, ITEM_DEBOUNCE,
                 timers, sinceInsert, deleted, burst, nFlush>>
  /\ UNCHANGED auxVars

\* Hooks.on("preDeleteItem") when buildRecipients(item.parent) throws
PreDeleteItemThrows(item) ==
  /\ ItemParent(item) # Null
  /\ ev' = Thrown("preDeleteItem", ItemParent(item), Null)
  /\ UNCHANGED <<coreVars, deleted, world, ITEM_DELETE_STASH, peer>>

\* Hooks.on("deleteItem") when ChatMessage.create rejects
DeleteItemRejects(item) ==
  /\ item \notin deleted
  /\ item \in DOMAIN ITEM_DELETE_STASH
  /\ ~(ITEM_DELETE_STASH[item].hasQty /\ ITEM_DELETE_STASH[item].qty = 0)
  /\ deleted' = deleted \cup {item}
  /\ ITEM_DELETE_STASH' = MapDelete(ITEM_DELETE_STASH, item)
  /\ ev' = Thrown("deleteItem", ITEM_DELETE_STASH[item].actor, Null)
  /\ UNCHANGED <<coreVars, world, peer>>

\* The local user works on actor a1 and deletes its item while host calls
\* may fail.
FaultNext ==
  \/ \E ups \in UpdateLists(<<"a1">>) : Request(GameUserId, <<"a1">>, ups)
  \/ PreUpdateActor
  \/ Commit
  \/ UpdateActor
  \/ Tick
  \/ \E id \in DOMAIN timers, isSimple \in BOOLEAN : TimerFire(id, isSimple)
  \/ \E id \in DOMAIN timers : TimerFireFails(id)
  \/ \E c \in flushing, isSimple \in BOOLEAN : FlushResume(c, isSimple)
  \/ \E c \in flushing : FlushResumeFails(c)
  \/ \E item \in DeletedItems : PreDeleteItem(item, TRUE)
  \/ \E item \in DeletedItems : PreDeleteItemThrows(item)
  \/ \E item \in DeletedItems, isSimple \in BOOLEAN :
       DeleteItem(item, GameUserId, TRUE, isSimple)
  \/ \E item \in DeletedItems : DeleteItemRejects(item)

FaultSpec == Init /\ [][FaultNext]_vars

\* ------------------------------------------------- damage systems
\* game.system.id
Systems == {"demonlord", "dnd5e", "pf2e", "shadowdark", "unknown"}

\* detectSystemPaths(sampleActor).damageSystem: the flag is set for the
\* system that counts damage up instead of health down
detectDamageSystem(sys) == sys = "demonlord"

\* The HP block of the flush for a health field that went from old to new
\* under game system sys.
ProcessHpBlock(sys, old, new, isSimple) ==
  /\ new - old # 0
  /\ LET damageSystem == detectDamageSystem(sys)
     IN  ev' = [type |-> "line", rec |-> "a1",
                msg |-> <<[actor |-> "a1", kind |-> "hp", old |-> old, new |-> new,
                          text |-> DeltaText(HpLabel(damageSystem), isSimple, old, new),
                          cls  |-> HpClass(damageSystem, new - old)]>>,
                sys |-> sys, damageSystem |-> damageSystem]
  /\ UNCHANGED <<coreVars, deleted>>
  /\ UNCHANGED auxVars

ClassNext ==
  \E sys \in Systems, old, new \in 0 .. MaxHP, isSimple \in BOOLEAN :
    ProcessHpBlock(sys, old, new, isSimple)

ClassSpec == Init /\ [][ClassNext]_vars

\* ------------------------------------------------- resolving the paths
\* The candidate locations of the heuristic probe, in the order of the arrays
candidatesHP      == <<"system.attributes.hp.value", "system.hp.value",
                       "system.health.value">>
candidatesTemp    == <<"system.attributes.hp.temp", "system.hp.temp">>
candidatesTempMax == <<"system.attributes.hp.tempmax", "system.hp.tempmax">>

ProbePaths ==
  {candidatesHP[i] : i \in 1 .. Len(candidatesHP)}
    \cup {candidatesTemp[i] : i \in 1 .. Len(candidatesTemp)}
    \cup {candidatesTempMax[i] : i \in 1 .. Len(candidatesTempMax)}

\* What a location of the sample actor may hold: nothing (undefined), null,
\* a finite number, or a text that is not numeric
RawKinds == {"undefined", "null", "number", "text"}

\* The sample actors handed to the resolver; given = FALSE: none is handed
NoSample == [given |-> FALSE, data |-> [q \in ProbePaths |-> "undefined"]]
Samples ==
  {[given |-> TRUE, data |-> d] : d \in [ProbePaths -> RawKinds]} \cup {NoSample}

\* foundry.utils.getProperty(sampleActor ?? {}, p)
getProperty(sample, path) ==
  IF sample.given THEN sample.data[path] ELSE "undefined"

\* Number.isFinite(Number(v)): Number(null) is 0, Number(undefined) and
\* Number of a non-numeric text are NaN
NumberIsFinite(v) == v \in {"number", "null"}

\* (variant) the last qualifying candidate is taken
findLast(candidates, sample) ==
  LET ok == {i \in 1 .. Len(candidates) :
               NumberIsFinite(getProperty(sample, candidates[i]))}
  IN  IF ok = {} THEN Null
      ELSE candidates[CHOOSE i \in ok : \A j \in ok : j <= i]

\* candidates.find(p => Number.isFinite(Number(getProperty(sample, p)))) || null
find(candidates, sample) ==
  LET ok == {i \in 1 .. Len(candidates) :
               NumberIsFinite(getProperty(sample, candidates[i]))}
  IN  IF ok = {} THEN Null
      ELSE candidates[CHOOSE i \in ok : \A j \in ok : i <= j]

\* function detectSystemPaths(sampleActor) under game.system.id = sys
detectSystemPathsOf(sys, sample) ==
  IF sys = "dnd5e"
  THEN [hpPath |-> "system.attributes.hp.value",
        tempPath |-> "system.attributes.hp.temp",
        tempMaxPath |-> "system.attributes.hp.tempmax", damageSystem |-> FALSE]
  ELSE IF sys = "pf2e"
  THEN [hpPath |-> "system.attributes.hp.value",
        tempPath |-> "system.attributes.hp.temp",
        tempMaxPath |-> Null, damageSystem |-> FALSE]
  ELSE IF sys = "shadowdark"
  THEN [hpPath |-> "system.hp.value", tempPath |-> Null,
        tempMaxPath |-> Null, damageSystem |-> FALSE]
  ELSE [hpPath |-> find(candidatesHP, sample),
        tempPath |-> find(candidatesTemp, sample),
        tempMaxPath |-> find(candidatesTempMax, sample),
        damageSystem |-> FALSE]

\* A stored setting: a string (a sequence of characters), a value that is
\* not a string, or a read that throws
CfgChars == {" ", "p"}
CfgStrings == UNION {[1 .. n -> CfgChars] : n \in 0 .. MaxCfgLen}
SettingValues ==
  {[kind |-> "string", s |-> str] : str \in CfgStrings}
    \cup {[kind |-> k, s |-> <<>>] : k \in {"number", "throws"}}

\* The settings tried for the temp max path: unset, a path, not a string
TempMaxSettings ==
  {[kind |-> "string", s |-> <<>>], [kind |-> "string", s |-> <<"p">>],
   [kind |-> "number", s |-> <<>>]}

\* (variant) only leading blanks are removed
RECURSIVE trimStart(_)
trimStart(str) ==
  IF str # <<>> /\ str[1] = " " THEN trimStart(SubSeq(str, 2, Len(str)))
  ELSE str

\* String.prototype.trim
RECURSIVE trim(_)
trim(str) ==
  IF str # <<>> /\ str[1] = " " THEN trim(SubSeq(str, 2, Len(str)))
  ELSE IF str # <<>> /\ str[Len(str)] = " "
       THEN trim(SubSeq(str, 1, Len(str) - 1))
  ELSE str

\* function getWorldPath(key), v being what game.settings.get does
getWorldPath(v) ==
  IF v.kind = "string" /\ Len(trim(v.s)) > 0
  THEN [isNull |-> FALSE, path |-> trim(v.s)]
  ELSE [isNull |-> TRUE, path |-> <<>>]

\* function resolvePaths(actor) with the settings it reads
resolvePathsOf(auto, sys, sample, cfg) ==
  IF auto THEN detectSystemPathsOf(sys, sample)
  ELSE [hpPath |-> getWorldPath(cfg.hpPath),
        tempPath |-> getWorldPath(cfg.tempHpPath),
        tempMaxPath |-> getWorldPath(cfg.tempHpMaxPath),
        damageSystem |-> FALSE]

NoCfg == [hpPath |-> [kind |-> "string", s |-> <<>>],
          tempHpPath |-> [kind |-> "string", s |-> <<>>],
          tempHpMaxPath |-> [kind |-> "string", s |-> <<>>]]

\* A sample actor of a system with every probed location numeric
FullSample == [given |-> TRUE, data |-> [q \in ProbePaths |-> "number"]]

\* The settings and arguments of one call of resolvePaths
ResolveInputs ==
  {[type |-> "input", rec |-> Null, msg |-> <<>>,
    auto |-> TRUE, sys |-> sys, sample |-> sample, cfg |-> NoCfg] :
     sys \in Systems \ {"unknown"}, sample \in {NoSample, FullSample}}
  \cup
  {[type |-> "input", rec |-> Null, msg |-> <<>>,
    auto |-> TRUE, sys |-> "unknown", sample |-> sample, cfg |-> NoCfg] :
     sample \in Samples}
  \cup
  {[type |-> "input", rec |-> Null, msg |-> <<>>,
    auto |-> FALSE, sys |-> sys, sample |-> FullSample, cfg |-> cfg] :
     sys \in {"dnd5e", "unknown"},
     cfg \in [hpPath : SettingValues, tempHpPath : SettingValues,
              tempHpMaxPath : TempMaxSettings]}

ResolveInit ==
  /\ docs = [r \in Records |-> InitDoc(r)]
  /\ op = NoOp
  /\ nOps = 0
  /\ ACTOR_DEBOUNCE = EmptyMap
  /\ ITEM_UPDATE_STASH = EmptyMap
  /\ ITEM_DEBOUNCE = EmptyMap
  /\ timers = EmptyMap
  /\ flushing = {}
  /\ sinceInsert = [r \in Records |-> DEBOUNCE_MS]
  /\ deleted = {}
  /\ burst = EmptyMap
  /\ nFlush = [r \in Records |-> 0]
  /\ ITEM_DELETE_STASH = EmptyMap
  /\ world = InitWorld
  /\ peer = InitPeer
  /\ ev \in ResolveInputs

\* resolvePaths(actor) is called
ResolvePaths ==
  /\ ev.type = "input"
  /\ ev' = [type |-> "resolve", rec |-> Null, msg |-> <<>>,
            auto |-> ev.auto, sys |-> ev.sys, sample |-> ev.sample,
            cfg |-> ev.cfg,
            paths |-> resolvePathsOf(ev.auto, ev.sys, ev.sample, ev.cfg)]
  /\ UNCHANGED <<coreVars, deleted>>
  /\ UNCHANGED auxVars

ResolveNext == ResolvePaths

ResolveSpec == ResolveInit /\ [][ResolveNext]_vars

\* ------------------------------------------------- one actor, one user
\* The acting user alone mutates actor a1, one mutation more than elsewhere:
\* two mutations fill a bucket with both fields, a third one can arrive
\* while the flush of that bucket is suspended.
ChainNext ==
  \/ \E ups \in UpdateLists(<<"a1">>) :
       RequestUpTo(MaxOps + 1, GameUserId, <<"a1">>, ups)
  \/ PreUpdateActor
  \/ Commit
  \/ UpdateActor
  \/ Tick
  \/ \E id \in DOMAIN timers, isSimple \in BOOLEAN : TimerFire(id, isSimple)
  \/ \E c \in flushing, isSimple \in BOOLEAN : FlushResume(c, isSimple)

ChainSpec == Init /\ [][ChainNext]_vars

\* ------------------------------------------------- changing the path settings
\* A game master changes autoDetectPaths / hpPath / tempHpPath: from then on
\* resolvePaths returns table t.
SetPaths(t) ==
  /\ t # world.paths
  /\ world' = [world EXCEPT !.paths = t]
  /\ ev' = NoEvent
  /\ UNCHANGED <<coreVars, deleted, ITEM_DELETE_STASH, peer>>

\* The mutations of a run in which the settings change
PathOps == 1

\* The acting user mutates one actor once while the settings change.  A
\* flush destructures the table once, at its start, so the settings stay as
\* they are while a flush is suspended.
PathNext ==
  \/ \E r \in Actors : \E ups \in UpdateLists(<<r>>) :
       RequestUpTo(PathOps, GameUserId, <<r>>, ups)
  \/ PreUpdateActor
  \/ Commit
  \/ UpdateActor
  \/ Tick
  \/ \E id \in DOMAIN timers, isSimple \in BOOLEAN : TimerFire(id, isSimple)
  \/ \E c \in flushing, isSimple \in BOOLEAN : FlushResume(c, isSimple)
  \/ \E t \in [hp : TrackedPaths \cup {Null}, temp : TrackedPaths \cup {Null},
                damageSystem : {FALSE}] :
       /\ flushing = {}
       /\ SetPaths(t)

PathSpec == Init /\ [][PathNext]_vars

\* ------------------------------------------------- vetoed mutations
\* A pre-update hook of another module, registered after this one, returns
\* false: the host drops the operation, nothing is written and no update
\* hook runs.
Veto ==
  /\ op.phase = "commit"
  /\ op.user = GameUserId
  /\ op' = NoOp
  /\ ev' = NoEvent
  /\ UNCHANGED <<docs, nOps, ACTOR_DEBOUNCE, ITEM_UPDATE_STASH, ITEM_DEBOUNCE,
                 timers, flushing, sinceInsert, deleted, burst, nFlush>>
  /\ UNCHANGED auxVars

\* Both users mutate item i1, one mutation more than elsewhere, and a
\* mutation of the acting user may be vetoed.
VetoNext ==
  \/ \E u \in Users : \E ups \in UpdateLists(<<"i1">>) :
       RequestUpTo(MaxOps + 1, u, <<"i1">>, ups)
  \/ \E trackItems \in BOOLEAN : PreUpdateItem(trackItems)
  \/ Veto
  \/ Commit
  \/ UpdateItem
  \/ Tick
  \/ \E id \in DOMAIN timers, isSimple \in BOOLEAN : ItemTimerFire(id, isSimple)
  \/ \E c \in flushing, isSimple \in BOOLEAN : FlushResume(c, isSimple)

VetoSpec == Init /\ [][VetoNext]_vars

\* ------------------------------------------------- an item's life
\* The acting user updates item i1 and deletes it, item tracking being on.
\* The host calls the pre-delete hook and the delete hook of one deletion
\* with no update of the item in between, so the deletion is notified unless
\* the quantity is 0.
ItemLifeNext ==
  \/ \E ups \in UpdateLists(<<"i1">>) :
       /\ ITEM_DELETE_STASH = EmptyMap
       /\ Request(GameUserId, <<"i1">>, ups)
  \/ PreUpdateItem(TRUE)
  \/ Commit
  \/ UpdateItem
  \/ Tick
  \/ \E id \in DOMAIN timers, isSimple \in BOOLEAN : ItemTimerFire(id, isSimple)
  \/ \E c \in flushing, isSimple \in BOOLEAN : FlushResume(c, isSimple)
  \/ (op.phase = "idle" /\ PreDeleteItem("i1", TRUE))
  \/ \E isSimple \in BOOLEAN :
       /\ "i1" \in DOMAIN ITEM_DELETE_STASH
       /\ DeleteItem("i1", GameUserId, TRUE, isSimple)

ItemLifeSpec == Init /\ [][ItemLifeNext]_vars

\* ------------------------------------------------- deleting items
\* An item with a quantity, or without the quantity field
ItemShapes ==
  {[p \in {"name"} |-> 0]}
    \cup {[p \in {"system.quantity", "name"} |-> IF p = "name" THEN 0 ELSE q] :
            q \in Values}

DeleteInit ==
  /\ op = NoOp
  /\ nOps = 0
  /\ ACTOR_DEBOUNCE = EmptyMap
  /\ ITEM_UPDATE_STASH = EmptyMap
  /\ ITEM_DEBOUNCE = EmptyMap
  /\ timers = EmptyMap
  /\ flushing = {}
  /\ sinceInsert = [r \in Records |-> DEBOUNCE_MS]
  /\ deleted = {}
  /\ burst = EmptyMap
  /\ nFlush = [r \in Records |-> 0]
  /\ ev = NoEvent
  /\ ITEM_DELETE_STASH = EmptyMap
  /\ docs \in {[r \in Records |->
                  IF r = "i1" THEN d1 ELSE IF r = "i2" THEN d2 ELSE InitDoc(r)] :
                d1 \in ItemShapes, d2 \in ItemShapes}
  /\ world = InitWorld
  /\ peer = InitPeer

\* The items of actor a1 are deleted, by the acting user or the other one
DeleteNext ==
  \/ \E item \in Items, trackItems \in BOOLEAN : PreDeleteItem(item, trackItems)
  \/ \E item \in Items, u \in Users, trackItems, isSimple \in BOOLEAN :
       DeleteItem(item, u, trackItems, isSimple)

DeleteSpec == DeleteInit /\ [][DeleteNext]_vars

\* ------------------------------------------------- batches of items
\* Item.updateDocuments on the items of actor a1 by the acting user: the
\* pre-update hook runs for every item, the host commits, the update hook
\* runs for every item, with one options object for all of them.
BatchNext ==
  \/ \E ds \in ItemBatches : \E ups \in UpdateLists(ds) :
       Request(GameUserId, ds, ups)
  \/ \E trackItems \in BOOLEAN : PreUpdateItem(trackItems)
  \/ Commit
  \/ UpdateItem
  \/ Tick
  \/ \E id \in DOMAIN timers, isSimple \in BOOLEAN : ItemTimerFire(id, isSimple)
  \/ \E c \in flushing, isSimple \in BOOLEAN : FlushResume(c, isSimple)

BatchSpec == Init /\ [][BatchNext]_vars

\* ------------------------------------------------- unresolved locations
\* The tables resolvePaths returns in a world where a field has no location
\* (a null entry of a known system, a failed probe, a blank manual setting);
\* the actors keep their data where DnD5e keeps it.
NullTables ==
  {t \in [hp : {detectSystemPaths.hp, Null},
          temp : {detectSystemPaths.temp, Null},
          damageSystem : {FALSE}] : t.hp = Null \/ t.temp = Null}

NullInit ==
  /\ CoreInit
  /\ world \in {[InitWorld EXCEPT !.paths = t] : t \in NullTables}
  /\ peer = InitPeer

NullSpec == NullInit /\ [][Next]_vars

\* ------------------------------------------------- currency
\* game.system.id
CurrencySystems == {"dnd5e", "pf2e", "shadowdark"}

\* Where an actor may keep its currency object (Null: it has none), and what
\* getWorldPath("currencyBasePath") may return
CurrencyLocations == {"system.currency", "system.currencies", "system.wealth"}
ManualBases == {Null, "system.wealth"}

\* An actor with a currency object at location at, holding the coins of coins,
\* gold being gp
CurrencyActors ==
  [at : CurrencyLocations \cup {Null}, coins : {{}, {"gp"}}, gp : Values]

\* The candidate locations of detectCurrencyInfo
currencyCandidates(sys, manualBase) ==
  IF manualBase # Null THEN <<manualBase>>
  ELSE IF sys = "pf2e" THEN <<"system.currencies", "system.currency">>
  ELSE <<"system.currency">>

\* function detectCurrencyInfo(actor)
detectCurrencyInfo(sys, manualBase, actor) ==
  LET candidates == currencyCandidates(sys, manualBase)
      hits == {i \in 1 .. Len(candidates) : candidates[i] = actor.at}
  IN  IF hits = {} THEN [basePath |-> Null, coins |-> {}]
      ELSE [basePath |-> candidates[CHOOSE i \in hits : \A j \in hits : i <= j],
            coins |-> actor.coins]

\* getWorldBool("trackCurrency") && (sys === "dnd5e" || sys === "pf2e")
currencyEnabled(trackCurrency, sys) ==
  trackCurrency /\ sys \in {"dnd5e", "pf2e"}

\* One mutation of the actor: the update sets the gold coin of the actor's
\* currency object to newGp (names = TRUE) or names another path
CurrencyInputs ==
  [type : {"input"}, rec : {Null}, msg : {<<>>},
   sys : CurrencySystems, trackCurrency : BOOLEAN, manualBase : ManualBases,
   actor : CurrencyActors, names : BOOLEAN, newGp : Values]

CurrencyInit ==
  /\ docs = [r \in Records |-> InitDoc(r)]
  /\ op = NoOp
  /\ nOps = 0
  /\ ACTOR_DEBOUNCE = EmptyMap
  /\ ITEM_UPDATE_STASH = EmptyMap
  /\ ITEM_DEBOUNCE = EmptyMap
  /\ timers = EmptyMap
  /\ flushing = {}
  /\ sinceInsert = [r \in Records |-> DEBOUNCE_MS]
  /\ deleted = {}
  /\ burst = EmptyMap
  /\ nFlush = [r \in Records |-> 0]
  /\ ITEM_DELETE_STASH = EmptyMap
  /\ world = InitWorld
  /\ peer = InitPeer
  /\ ev \in CurrencyInputs

\* Hooks.on("preUpdateActor"), currency part: the payload it stashes (stashed
\* = FALSE: none) for an update that names no other tracked field
PreUpdateActorCurrency ==
  /\ ev.type = "input"
  /\ LET info == detectCurrencyInfo(ev.sys, ev.manualBase, ev.actor)
         will == /\ ev.names
                 /\ ev.actor.at # Null
                 /\ "gp" \in ev.actor.coins
                 /\ "gp" \in info.coins
                 /\ info.basePath = ev.actor.at
         stashed == /\ currencyEnabled(ev.trackCurrency, ev.sys)
                    /\ info.basePath # Null
                    /\ info.coins # {}
                    /\ will
     IN  ev' = [type |-> "stash", rec |-> Null, msg |-> <<>>, input |-> ev,
                info |-> info,
                currency |-> [stashed |-> stashed,
                              basePath |-> info.basePath,
                              coins |-> info.coins,
                              old |-> ev.actor.gp]]
  /\ UNCHANGED <<coreVars, deleted>>
  /\ UNCHANGED auxVars

\* The host commits the update, updateActor opens the bucket with the
\* payload, the timer expires and processActorUpdate runs its currency block
ProcessCurrency ==
  /\ ev.type = "stash"
  /\ LET in == ev.input
         committed == in.names /\ in.actor.at # Null /\ "gp" \in in.actor.coins
         newVal == IF committed THEN in.newGp ELSE in.actor.gp
         posts == /\ ev.currency.stashed
                  /\ newVal # ev.currency.old
     IN  ev' = [type |-> "currency", rec |-> Null,
                msg |-> IF posts
                        THEN <<[kind |-> "currency",
                                text |-> DeltaText("gp", FALSE,
                                                   ev.currency.old, newVal),
                                cls |-> IF newVal - ev.currency.old > 0
                                        THEN "tiny-monitor-currency-gain"
                                        ELSE "tiny-monitor-currency-loss"]>>
                        ELSE <<>>,
                input |-> in, info |-> ev.info,
                changed |-> committed /\ in.newGp # in.actor.gp]
  /\ UNCHANGED <<coreVars, deleted>>
  /\ UNCHANGED auxVars

CurrencyNext == PreUpdateActorCurrency \/ ProcessCurrency

CurrencySpec == CurrencyInit /\ [][CurrencyNext]_vars

\* ------------------------------------------------- rendering
\* A chat message as the render hook sees it: its two flags in the module's
\* scope ("undefined": not set; the empty string: no class)
FlagValues  == {"undefined", "true", "false"}
ClassValues == {"", "tiny-monitor-gain", "tiny-monitor-temp"}
ChatMessages == [isMonitorMsg : FlagValues, cls : ClassValues]

\* The element the host rendered: html[0]?.closest(".chat-message") finds it
\* (found) or not; its class list and its content
Elements ==
  [found : BOOLEAN,
   classList : SUBSET {"chat-message", "tiny-monitor-gain"},
   content : {0, 1}]

\* (variant) every message is taken for one of the module's
TaggedAlways(message) == TRUE

\* message.getFlag(MOD_ID, "isMonitorMsg"), as a condition
Tagged(message) == message.isMonitorMsg = "true"

\* The element after the render hook ran
renderChatMessage(message, li) ==
  IF ~Tagged(message) THEN li
  ELSE IF ~li.found THEN li
  ELSE [li EXCEPT !.classList =
          (@ \cup {"tiny-monitor-msg"})
            \cup (IF message.cls # "" THEN {message.cls} ELSE {})]

RenderInit ==
  /\ docs = [r \in Records |-> InitDoc(r)]
  /\ op = NoOp
  /\ nOps = 0
  /\ ACTOR_DEBOUNCE = EmptyMap
  /\ ITEM_UPDATE_STASH = EmptyMap
  /\ ITEM_DEBOUNCE = EmptyMap
  /\ timers = EmptyMap
  /\ flushing = {}
  /\ sinceInsert = [r \in Records |-> DEBOUNCE_MS]
  /\ deleted = {}
  /\ burst = EmptyMap
  /\ nFlush = [r \in Records |-> 0]
  /\ ITEM_DELETE_STASH = EmptyMap
  /\ world = InitWorld
  /\ peer = InitPeer
  /\ ev \in [type : {"input"}, rec : {Null}, msg : {<<>>},
              message : ChatMessages, li : Elements]

\* Hooks.on("renderChatMessage")
RenderChatMessage ==
  /\ ev.type = "input"
  /\ ev' = [type |-> "render", rec |-> Null, msg |-> <<>>,
            message |-> ev.message, li |-> ev.li,
            after |-> renderChatMessage(ev.message, ev.li)]
  /\ UNCHANGED <<coreVars, deleted>>
  /\ UNCHANGED auxVars

RenderNext == RenderChatMessage

RenderSpec == RenderInit /\ [][RenderNext]_vars

\* ------------------------------------------------- clipping names
\* A display character is a sequence of code points and a code point a
\* sequence of UTF-16 code units: a letter (one unit), an astral symbol (a
\* high and a low surrogate), a letter followed by a combining mark.
Letter   == <<(<<"a">>)>>
Astral   == <<(<<"H", "L">>)>>
Accented == <<(<<"a">>), (<<"m">>)>>
DisplayChars == {Letter, Astral, Accented}

\* The names: sequences of display characters; given = FALSE is a null name
Labels ==
  {[given |-> TRUE, chars |-> l] :
     l \in UNION {[1 .. n -> DisplayChars] : n \in 0 .. MaxLabel}}
    \cup {[given |-> FALSE, chars |-> <<>>]}

\* The concatenation of a sequence of sequences
RECURSIVE Flatten(_)
Flatten(seqs) ==
  IF seqs = <<>> THEN <<>> ELSE Head(seqs) \o Flatten(Tail(seqs))

\* String(name ?? ""): the code units of the name
StringOf(label) ==
  IF label.given THEN Flatten(Flatten(label.chars)) ELSE <<>>

\* (variant) str.split(""): one element per code unit
RECURSIVE SplitUnits(_)
SplitUnits(units) ==
  IF units = <<>> THEN <<>>
  ELSE <<(<<Head(units)>>)>> \o SplitUnits(Tail(units))

\* Array.from(str): the string iterator yields code points, a high
\* surrogate together with the low surrogate that follows it
RECURSIVE ArrayFrom(_)
ArrayFrom(units) ==
  IF units = <<>> THEN <<>>
  ELSE IF Len(units) >= 2 /\ units[1] = "H" /\ units[2] = "L"
       THEN <<SubSeq(units, 1, 2)>> \o ArrayFrom(SubSeq(units, 3, Len(units)))
  ELSE <<SubSeq(units, 1, 1)>> \o ArrayFrom(Tail(units))

\* (variant) the cut keeps one code point more than the budget
clipNameWide(label) ==
  LET chars == ArrayFrom(StringOf(label))
  IN  IF Len(chars) <= MaxNameChars THEN Flatten(chars)
      ELSE Flatten(SubSeq(chars, 1, MaxNameChars + 1)) \o <<"...">>

\* function clipName(name)
clipName(label) ==
  LET chars == ArrayFrom(StringOf(label))
  IN  IF Len(chars) <= MaxNameChars THEN Flatten(chars)
      ELSE Flatten(SubSeq(chars, 1, MaxNameChars)) \o <<"...">>

ClipInit ==
  /\ docs = [r \in Records |-> InitDoc(r)]
  /\ op = NoOp
  /\ nOps = 0
  /\ ACTOR_DEBOUNCE = EmptyMap
  /\ ITEM_UPDATE_STASH = EmptyMap
  /\ ITEM_DEBOUNCE = EmptyMap
  /\ timers = EmptyMap
  /\ flushing = {}
  /\ sinceInsert = [r \in Records |-> DEBOUNCE_MS]
  /\ deleted = {}
  /\ burst = EmptyMap
  /\ nFlush = [r \in Records |-> 0]
  /\ ITEM_DELETE_STASH = EmptyMap
  /\ world = InitWorld
  /\ peer = InitPeer
  /\ ev \in {[type |-> "input", rec |-> Null, msg |-> <<>>, label |-> l] :
               l \in Labels}

\* clipName(name) is called
ClipName ==
  /\ ev.type = "input"
  /\ ev' = [type |-> "clip", rec |-> Null, msg |-> <<>>, label |-> ev.label,
            out |-> clipName(ev.label)]
  /\ UNCHANGED <<coreVars, deleted>>
  /\ UNCHANGED auxVars

\* clipName is called on the string an earlier call returned
ClipAgain ==
  /\ ev.type = "clip"
  /\ ev' = [type |-> "reclip", rec |-> Null, msg |-> <<>>, label |-> ev.label,
            first |-> ev.out,
            out |-> clipName([given |-> TRUE, chars |-> <<(<<ev.out>>)>>])]
  /\ UNCHANGED <<coreVars, deleted>>
  /\ UNCHANGED auxVars

ClipNext == ClipName \/ ClipAgain

ClipSpec == ClipInit /\ [][ClipNext]_vars

\* ------------------------------------------------- spell preparation
\* The raw values of a spell's fields; "undefined" is an absent field
Methods == {"", "prepared", "always", "innate"}
PreparedVals == {"undefined", "true", "false"}
Boolean(v) == v = "true"

\* A spell item: system.method and system.prepared
Spells == [method : Methods \cup {"undefined"}, prepared : PreparedVals]

\* The change of an item update: the value given at each of the four
\* preparation paths, "undefined" when the change does not name the path
SpellChanges ==
  [method : {"undefined", "prepared", "always", "innate"},
   prepared : PreparedVals,
   mode : {"undefined", "prepared", "always"},
   legacyPrepared : PreparedVals]

\* The item after the host applied the change
ApplySpellChange(item, change) ==
  [method |-> IF change.method # "undefined" THEN change.method ELSE item.method,
   prepared |-> IF change.prepared # "undefined" THEN change.prepared
                ELSE item.prepared]

\* function dnd5eIsSpellPreparedLike(item)
dnd5eIsSpellPreparedLike(item) ==
  LET method == IF item.method = "undefined" THEN "" ELSE item.method
      prepared == Boolean(item.prepared)
  IN  IF method = "prepared" THEN prepared
      ELSE IF method = "always" THEN TRUE
      ELSE IF method = "" /\ item.prepared # "undefined" THEN prepared
      ELSE FALSE

\* function computePreparedAfter(item, change)
computePreparedAfter(item, change) ==
  LET methodRead == IF change.method # "undefined" THEN change.method
                    ELSE change.mode
      preparedGiven == IF change.prepared # "undefined" THEN change.prepared
                       ELSE change.legacyPrepared
      methodGiven == IF preparedGiven # "undefined" /\ methodRead = "undefined"
                     THEN "prepared" ELSE methodRead
  IN  IF methodGiven # "undefined"
      THEN IF methodGiven = "always" THEN TRUE
           ELSE IF methodGiven = "prepared"
                THEN IF preparedGiven # "undefined" THEN Boolean(preparedGiven)
                     ELSE Boolean(item.prepared)
           ELSE FALSE
      ELSE dnd5eIsSpellPreparedLike(item)

\* The change names one of the four preparation paths
NamesPreparation(change) ==
  \/ change.prepared # "undefined"
  \/ change.legacyPrepared # "undefined"
  \/ change.method # "undefined"
  \/ change.mode # "undefined"

SpellInputs ==
  [type : {"input"}, rec : {Null}, msg : {<<>>},
   item : Spells, change : SpellChanges,
   itemType : {"spell", "weapon"}, trackDnd5eSpellPrep : BOOLEAN]

SpellInit ==
  /\ docs = [r \in Records |-> InitDoc(r)]
  /\ op = NoOp
  /\ nOps = 0
  /\ ACTOR_DEBOUNCE = EmptyMap
  /\ ITEM_UPDATE_STASH = EmptyMap
  /\ ITEM_DEBOUNCE = EmptyMap
  /\ timers = EmptyMap
  /\ flushing = {}
  /\ sinceInsert = [r \in Records |-> DEBOUNCE_MS]
  /\ deleted = {}
  /\ burst = EmptyMap
  /\ nFlush = [r \in Records |-> 0]
  /\ ITEM_DELETE_STASH = EmptyMap
  /\ world = InitWorld
  /\ peer = InitPeer
  /\ ev \in SpellInputs

\* Hooks.on("updateItem"), spell preparation part, on the acting client: the
\* item the hook receives is the item after the change. No pre-update stash
\* exists for the item, so the quantity and name part does nothing.
UpdateItemSpell ==
  /\ ev.type = "input"
  /\ LET after == ApplySpellChange(ev.item, ev.change)
         posts == /\ ev.trackDnd5eSpellPrep
                  /\ ev.itemType = "spell"
                  /\ NamesPreparation(ev.change)
         prepared == computePreparedAfter(after, ev.change)
     IN  ev' = [type |-> "spellprep", rec |-> Null,
                msg |-> IF posts
                        THEN <<[cls |-> "tiny-monitor-spellprep",
                                text |-> IF prepared THEN "prepared"
                                         ELSE "unprepared"]>>
                        ELSE <<>>,
                before |-> dnd5eIsSpellPreparedLike(ev.item),
                after |-> dnd5eIsSpellPreparedLike(after),
                change |-> ev.change]
  /\ UNCHANGED <<coreVars, deleted>>
  /\ UNCHANGED auxVars

SpellNext == UpdateItemSpell

SpellSpec == SpellInit /\ [][SpellNext]_vars

\* Fairness: the host finishes the operation in flight, time passes, and a
\* timeout whose delay has elapsed runs its callback (single-threaded event
\* loop with a timer queue); awaited chat posts resolve.
LiveSpec ==
  /\ Spec
  /\ WF_vars(PreUpdateActor) /\ WF_vars(Commit) /\ WF_vars(UpdateActor)
  /\ WF_vars(\E trackItems \in BOOLEAN : PreUpdateItem(trackItems))
  /\ WF_vars(UpdateItem)
  /\ WF_vars(Tick)
  /\ WF_vars(\E id \in DOMAIN timers, isSimple \in BOOLEAN : TimerFire(id, isSimple))
  /\ WF_vars(\E id \in DOMAIN timers, isSimple \in BOOLEAN : ItemTimerFire(id, isSimple))

\* ------------------------------------------------------------ properties
\* The chat messages posted by the last step
Msgs == {ev.msg[i] : i \in 1 .. Len(ev.msg)}

\* The armed timers of a record
TimersOf(r) == {id \in DOMAIN timers : timers[id].doc = r}

\* The debounce map that holds the buckets of record r
DebounceOf(r) == IF r \in Items THEN ITEM_DEBOUNCE ELSE ACTOR_DEBOUNCE

\* C1: a burst of local mutations of one actor's field is reported once,
\* with before = the value held before the first mutation of the burst and
\* after = the value held after its last mutation.
C1_BurstNetChange ==
  \A m \in Msgs :
    /\ m.old = ValueOf(ev.burst.first, ev.rec, m.kind)
    /\ m.new = ValueOf(ev.burst.last, ev.rec, m.kind)

\* C2: an insertion into an open bucket keeps every before value the bucket
\* already holds, adds the payload's value only for fields it did not hold,
\* and leaves the record with one bucket and one armed timer.
C2_BeforeFixedAtFirstInsertion ==
  ev.type = "insert" =>
    LET b == DebounceOf(ev.rec)[uuid(ev.rec)].old
    IN  /\ DOMAIN b = (DOMAIN ev.before) \cup (DOMAIN ev.payload)
        /\ \A f \in DOMAIN ev.before : b[f] = ev.before[f]
        /\ \A f \in (DOMAIN ev.payload) \ (DOMAIN ev.before) : b[f] = ev.payload[f]
        /\ Cardinality(TimersOf(ev.rec)) = 1

C2_Witness ==
  /\ ev.type = "insert"
  /\ ~ev.fresh
  /\ \E f \in (DOMAIN ev.before) \cap (DOMAIN ev.payload) :
       ev.payload[f] # ev.before[f]

C4_FlushAfterFullQuietPeriod ==
  /\ ev.type = "insert" =>
       /\ Cardinality(TimersOf(ev.rec)) = 1
       /\ \A id \in TimersOf(ev.rec) : timers[id].left = DEBOUNCE_MS
  /\ ev.type = "flush" => ev.elapsed >= DEBOUNCE_MS

C4_Witness ==
  /\ ev.type = "flush"
  /\ ev.burst.resets > 0

\* C5: the flush receives the accumulated bucket, the bucket and its timer
\* are gone afterwards, and the next insertion for the record opens a bucket
\* that holds only that insertion's payload.
C5_FlushOnceThenFresh ==
  /\ ev.type = "flush" =>
       /\ uuid(ev.rec) \notin DOMAIN DebounceOf(ev.rec)
       /\ TimersOf(ev.rec) = {}
       /\ ev.data = ev.bucket
  /\ (ev.type = "insert" /\ ev.opens) =>
       DebounceOf(ev.rec)[uuid(ev.rec)].old = ev.payload
  /\ \A r \in Records :
       /\ Cardinality(TimersOf(r)) <= 1
       /\ uuid(r) \in DOMAIN DebounceOf(r) <=> TimersOf(r) # {}

C5_Witness ==
  /\ ev.type = "insert"
  /\ ev.opens
  /\ nFlush[ev.rec] > 0
  /\ ev.payload # EmptyMap

\* C6: a record with an open bucket is eventually flushed, whether or not
\* the record is deleted meanwhile.
C6_FlushEventuallyRuns ==
  \A r \in Records :
    (uuid(r) \in DOMAIN DebounceOf(r)) ~> (ev.type = "flush" /\ ev.rec = r)

C6_Witness ==
  /\ ev.type = "flush"
  /\ ev.gone

\* C7: a step that inserts into, re-arms the timer of, or flushes one
\* record's bucket leaves every other record's bucket and armed timers as
\* they were.
C7_RecordsIndependent ==
  [][\A b \in Records :
       (ev'.type \in {"insert", "ignored", "flush", "resume"} /\ ev'.rec # b) =>
         /\ (uuid(b) \in DOMAIN DebounceOf(b)) = (uuid(b) \in DOMAIN DebounceOf(b)')
         /\ uuid(b) \in DOMAIN DebounceOf(b) =>
               DebounceOf(b)'[uuid(b)] = DebounceOf(b)[uuid(b)]
         /\ TimersOf(b)' = TimersOf(b)
         /\ \A id \in TimersOf(b) : timers'[id] = timers[id]]_vars

C7_Witness ==
  /\ ev.type \in {"insert", "flush"}
  /\ \E b \in Records \ {ev.rec} :
       /\ uuid(b) \in DOMAIN DebounceOf(b)
       /\ TimersOf(b) # {}

\* C8: the old values the post-update hook uses for an actor are the ones
\* the pre-update hook captured for that same actor.
C8_StashIsPerRecord ==
  ev.type = "insert" => ev.payload = ev.captured

\* C9: nothing is posted for a field whose value before the burst equals the
\* value the record holds when the notification is produced.
C9_NoNotificationWithoutChange ==
  \A m \in Msgs :
    ValueOf(ev.burst.first, ev.rec, m.kind) # ValueOf(docs[ev.rec], ev.rec, m.kind)

\* The ids in a recipient list
IdsOf(list) == {list[i] : i \in 1 .. Len(list)}

\* C11: the recipient list computed for a record is never empty.
C11_RecipientsNeverEmpty ==
  buildRecipients("a1") # <<>>

\* C12: the recipient list contains every game-master user and no user id
\* twice.
C12_AllGMsNoDuplicates ==
  LET r == buildRecipients("a1")
  IN  /\ world.gm \subseteq IdsOf(r)
      /\ \A i, j \in 1 .. Len(r) : r[i] = r[j] => i = j

C12_Witness ==
  /\ ev.type = "post"
  /\ ev.whisper = buildRecipients("a1")
  /\ \E u \in world.gm : u \in world.owners
  /\ Len(ev.whisper) > 1

C15_RecipientsAtEmission ==
  ev.type = "post" => ev.whisper = buildRecipients(ev.rec)

\* C16: no committed change of a tracked field is included in notifications
\* posted by two different clients: a change the other client has reported
\* was not committed while the bucket this client now reports for that field
\* was open.
C16_NoChangeReportedByTwoClients ==
  ev.type = "flush" =>
    \A m \in Msgs :
      ~\E c \in peer.posted :
         /\ c.rec = ev.rec
         /\ c.f = m.kind
         /\ c.gen = nFlush[ev.rec] - 1

\* C17: an exception raised inside a hook callback or a flush is caught at
\* the callback boundary and logged; none leaves the callback.
C17_NoExceptionEscapes ==
  ev.type = "throw" => (ev.caught /\ ev.logged)

\* C18: an invocation in which a host call fails has emitted no notification
\* line at all.
C18_NoPartialNotification ==
  ev.type = "throw" => ev.prev = Null

\* The place of a field in a sequence of fields (0: not in it)
IndexIn(seq, f) ==
  IF \E i \in 1 .. Len(seq) : seq[i] = f
  THEN CHOOSE i \in 1 .. Len(seq) : seq[i] = f ELSE 0

\* C19 (as stated): within one flush a line is emitted after the lines of
\* the fields whose before values entered the bucket earlier.
C19_LinesInInsertionOrder ==
  ev.type = "resume" =>
    \A m \in Msgs :
      IndexIn(ev.burst.order, ev.prev) < IndexIn(ev.burst.order, m.kind)

\* C19 (amended): within one flush the lines are emitted in the fixed order
\* of the blocks of the flush function (actor: HP, then Temp; item:
\* quantity, then rename), whatever the order of insertion was.
C19_LinesInBlockOrder ==
  ev.type = "resume" =>
    \A m \in Msgs :
      /\ ev.rec \in Actors =>
           IndexIn(<<"hp", "temp">>, ev.prev) < IndexIn(<<"hp", "temp">>, m.kind)
      /\ ev.rec \in Items =>
           IndexIn(<<"qty", "name">>, ev.prev) < IndexIn(<<"qty", "name">>, m.kind)

C19_Witness ==
  /\ ev.type = "resume"
  /\ ev.rec \in Actors
  /\ ev.burst.order = <<"temp", "hp">>
  /\ \E m \in Msgs : m.kind = "temp" /\ ev.prev = "hp"

\* C20: under a damage system a rising health field is styled as a loss and
\* a falling one as a gain, under any other system rising is a gain and
\* falling a loss; the text shows the sign of the change and its magnitude
\* (and, in full mode, the old and new values) as they are.
C20_DamageSystemStyle ==
  ev.type = "line" =>
    \A m \in Msgs :
      LET d == m.new - m.old
      IN  /\ (ev.sys = "demonlord" /\ d > 0) => m.cls = "tiny-monitor-loss"
          /\ (ev.sys = "demonlord" /\ d < 0) => m.cls = "tiny-monitor-gain"
          /\ (ev.sys # "demonlord" /\ d > 0) => m.cls = "tiny-monitor-gain"
          /\ (ev.sys # "demonlord" /\ d < 0) => m.cls = "tiny-monitor-loss"
          /\ m.text.sign = (IF d > 0 THEN "+" ELSE "-")
          /\ m.text.abs = (IF d > 0 THEN d ELSE 0 - d)
          /\ m.text.form = "full" => (m.text.old = m.old /\ m.text.new = m.new)

C20_Witness ==
  /\ ev.type = "line"
  /\ ev.damageSystem
  /\ \E m \in Msgs : m.new > m.old /\ m.cls = "tiny-monitor-loss"
                      /\ m.text.sign = "+" /\ m.text.label = "Damage"

\* C21: with auto-detect on and system id 'demonlord' the resolver returns
\* that system's fixed table: its health path, no temp path, damageSystem.
C21_DemonLordTable ==
  (ev.type = "resolve" /\ ev.auto /\ ev.sys = "demonlord") =>
    /\ ev.paths.hpPath = "system.characteristics.health.value"
    /\ ev.paths.tempPath = Null
    /\ ev.paths.damageSystem

\* The result r is the first of the candidates whose value on the sample is
\* of one of the kinds, or Null when none is
IsFirstOfKinds(r, candidates, sample, kinds) ==
  LET ok(i) == getProperty(sample, candidates[i]) \in kinds
  IN  \/ r = Null /\ \A i \in 1 .. Len(candidates) : ~ok(i)
      \/ \E i \in 1 .. Len(candidates) :
            /\ r = candidates[i]
            /\ ok(i)
            /\ \A j \in 1 .. (i - 1) : ~ok(j)

\* The resolver probes: auto-detect is on and the system has no fixed table
Probed ==
  ev.type = "resolve" /\ ev.auto /\ ev.sys \notin {"dnd5e", "pf2e", "shadowdark"}

\* C27 (as stated): for a system without a fixed table each field resolves
\* to the first candidate whose value on the sample is a finite number, and
\* to null when there is none or no sample is given.
C27_FirstCandidateHoldingNumber ==
  Probed =>
    /\ IsFirstOfKinds(ev.paths.hpPath, candidatesHP, ev.sample, {"number"})
    /\ IsFirstOfKinds(ev.paths.tempPath, candidatesTemp, ev.sample, {"number"})
    /\ IsFirstOfKinds(ev.paths.tempMaxPath, candidatesTempMax, ev.sample, {"number"})

\* C27 (amended): each field resolves to the first candidate whose value
\* converts to a finite number, which a number and null do and a missing
\* value and a non-numeric text do not; to null when there is none or no
\* sample is given.
C27_FirstCandidateConvertingToNumber ==
  Probed =>
    /\ IsFirstOfKinds(ev.paths.hpPath, candidatesHP, ev.sample, {"number", "null"})
    /\ IsFirstOfKinds(ev.paths.tempPath, candidatesTemp, ev.sample, {"number", "null"})
    /\ IsFirstOfKinds(ev.paths.tempMaxPath, candidatesTempMax, ev.sample,
                      {"number", "null"})
    /\ ~ev.sample.given =>
         (ev.paths.hpPath = Null /\ ev.paths.tempPath = Null
            /\ ev.paths.tempMaxPath = Null)

C27_Witness ==
  /\ Probed
  /\ ev.sample.given
  /\ ev.sample.data[candidatesHP[1]] = "text"
  /\ ev.sample.data[candidatesHP[2]] = "number"
  /\ ev.sample.data[candidatesHP[3]] = "number"
  /\ ev.paths.hpPath = candidatesHP[2]
  /\ ev.paths.tempPath = Null

\* A sequence of n blanks
Blanks(n) == [i \in 1 .. n |-> " "]

\* C25: with auto-detect off each path is the configured string without
\* its leading and trailing blanks, whatever the system and the sample are,
\* and a setting that is blank, all blanks or not a string gives no path.
C25_ManualPathsAreTrimmedSettings ==
  (ev.type = "resolve" /\ ~ev.auto) =>
    /\ ~ev.paths.damageSystem
    /\ \A k \in {<<"hpPath", "hpPath">>, <<"tempHpPath", "tempPath">>,
                  <<"tempHpMaxPath", "tempMaxPath">>} :
         LET v == ev.cfg[k[1]]
             r == ev.paths[k[2]]
         IN  /\ r.isNull <=> (v.kind # "string"
                                \/ \A i \in 1 .. Len(v.s) : v.s[i] = " ")
             /\ ~r.isNull =>
                  /\ r.path[1] # " "
                  /\ r.path[Len(r.path)] # " "
                  /\ \E a, b \in 0 .. Len(v.s) :
                       v.s = Blanks(a) \o r.path \o Blanks(b)

C25_Witness ==
  /\ ev.type = "resolve"
  /\ ~ev.auto
  /\ ev.sys = "dnd5e"
  /\ ev.cfg.hpPath.s = <<" ", "p", " ">>
  /\ ev.paths.hpPath = [isNull |-> FALSE, path |-> <<"p">>]
  /\ ev.cfg.tempHpPath.s = <<" ", " ">>
  /\ ev.paths.tempPath.isNull
  /\ ev.cfg.tempHpMaxPath.kind = "number"
  /\ ev.paths.tempMaxPath.isNull

\* C22: a quantity line for 0 -> 1 is the phrase 'added' and one for 1 -> 0
\* the phrase 'deleted', both without arithmetic; every other change is a
\* signed delta line; the style is the increase style when the quantity
\* rose and the decrease style when it fell.
C22_QuantityPhrases ==
  \A m \in Msgs :
    m.kind = "qty" =>
      LET d == m.new - m.old
      IN  /\ d # 0
          /\ (m.old = 0 /\ m.new = 1) => DOMAIN m.text = {"form", "label"}
                                           /\ m.text.form = "added"
          /\ (m.old = 1 /\ m.new = 0) => DOMAIN m.text = {"form", "label"}
                                           /\ m.text.form = "deleted"
          /\ ~(m.old = 0 /\ m.new = 1) /\ ~(m.old = 1 /\ m.new = 0) =>
                /\ m.text.form \in {"simple", "full"}
                /\ m.text.sign = (IF d > 0 THEN "+" ELSE "-")
                /\ m.text.abs = (IF d > 0 THEN d ELSE 0 - d)
                /\ m.text.form = "full" =>
                     (m.text.old = m.old /\ m.text.new = m.new)
          /\ m.cls = (IF d > 0 THEN "tiny-monitor-item-inc"
                      ELSE "tiny-monitor-item-dec")

C22_Witness ==
  \E m \in Msgs :
    m.kind = "qty" /\ m.old = 0 /\ m.new = 1 /\ m.text.form = "added"

\* C23 (as stated): a name of at most the budget of whole display
\* characters is returned unchanged, a longer one is cut to the first budget
\* display characters followed by the ellipsis; no display character is
\* split.
C23_ClipsWholeDisplayCharacters ==
  ev.type = "clip" =>
    LET shown == ev.label.chars
    IN  ev.out = IF Len(shown) <= MaxNameChars THEN Flatten(Flatten(shown))
                 ELSE Flatten(Flatten(SubSeq(shown, 1, MaxNameChars))) \o <<"...">>

\* C23 (amended): a name of at most the budget of code points is returned
\* unchanged, a longer one is cut to the first budget code points followed by
\* the ellipsis; the two units of a surrogate pair stay together.
C23_ClipsWholeCodePoints ==
  ev.type = "clip" =>
    LET points == Flatten(ev.label.chars)
    IN  /\ ev.out = IF Len(points) <= MaxNameChars THEN Flatten(points)
                    ELSE Flatten(SubSeq(points, 1, MaxNameChars)) \o <<"...">>
        /\ \A i \in 1 .. Len(ev.out) :
             ev.out[i] = "H" => (i < Len(ev.out) /\ ev.out[i + 1] = "L")

C23_Witness ==
  /\ ev.type = "clip"
  /\ Len(ev.label.chars) > MaxNameChars
  /\ \A i \in 1 .. Len(ev.label.chars) : ev.label.chars[i] = Astral
  /\ Len(ev.out) = 2 * MaxNameChars + 1
  /\ ev.out[Len(ev.out)] = "..."

\* C24: a spell-preparation notification is posted only when the spell's
\* effective prepared state after the mutation differs from the one before.
C24_PreparationPostedOnlyOnChange ==
  (ev.type = "spellprep" /\ ev.msg # <<>>) => ev.before # ev.after

\* The fields of an actor that have no location in this world
Untracked == {f \in Fields : resolvePaths[f] = Null}

C28_CurrencyNotifiedOnEverySystem ==
  (/\ ev.type = "currency"
   /\ ev.input.trackCurrency
   /\ ev.info.basePath # Null
   /\ ev.changed) => ev.msg # <<>>

\* C29: the render hook leaves the element of a message without the monitor
\* tag unchanged; for a tagged message it changes nothing but the class list,
\* to which it only adds the monitor class and the message's own class.
C29_RenderOnlyAddsClassesToTagged ==
  ev.type = "render" =>
    /\ ev.message.isMonitorMsg # "true" => ev.after = ev.li
    /\ ev.after.content = ev.li.content
    /\ ev.after.found = ev.li.found
    /\ ev.li.classList \subseteq ev.after.classList
    /\ ev.after.classList \ ev.li.classList
         \subseteq {"tiny-monitor-msg", ev.message.cls} \ {""}

C29_Witness ==
  /\ ev.type = "render"
  /\ ev.message.isMonitorMsg = "true"
  /\ ev.message.cls = "tiny-monitor-temp"
  /\ ev.li.found
  /\ ev.li.classList = {"chat-message"}
  /\ ev.after.classList = {"chat-message", "tiny-monitor-msg", "tiny-monitor-temp"}
  /\ ev.after.content = ev.li.content

\* C30: the old quantity and old name stashed for an item of an operation
\* are that item's own values before the operation; the update hook of an
\* item takes the stash the pre-update hook wrote for that item, its bucket
\* holds values of that stash or of its own earlier ones, and the old value
\* a notification of the item reports is the one of its bucket.
C30_ItemOldValuesAreItsOwn ==
  /\ op.phase # "idle" =>
       \A item \in DOMAIN ITEM_UPDATE_STASH :
         \A f \in DOMAIN ITEM_UPDATE_STASH[item] :
           ITEM_UPDATE_STASH[item][f] = ValueOf(op.prior[item], item, f)
  /\ (ev.type = "insert" /\ ev.rec \in Items) =>
       /\ ev.payload = ev.captured
       /\ \A f \in DOMAIN ITEM_DEBOUNCE[ev.rec].old :
            ITEM_DEBOUNCE[ev.rec].old[f] =
              IF f \in DOMAIN ev.before THEN ev.before[f] ELSE ev.captured[f]
  /\ (ev.type \in {"flush", "resume"} /\ ev.rec \in Items) =>
       \A i \in 1 .. Len(ev.msg) : ev.msg[i].old = ev.data[ev.msg[i].kind]

\* Both items of a batch changed their quantity: the first one's bucket holds
\* its old quantity, the second one's stash holds its own.
C30_Witness ==
  /\ op.phase = "post"
  /\ op.docs = <<"i1", "i2">>
  /\ op.i = 2
  /\ "i1" \in DOMAIN ITEM_DEBOUNCE
  /\ ITEM_DEBOUNCE["i1"].old = [f \in {"qty"} |-> 1]
  /\ "i2" \in DOMAIN ITEM_UPDATE_STASH
  /\ ITEM_UPDATE_STASH["i2"] = [f \in {"qty"} |-> 2]

\* C31: the pre-update hook of an actor writes a stash exactly when the
\* update names the location of a field that has one, whatever the value;
\* an update hook call without a stash, or for another user's operation,
\* changes no bucket and no timer and posts nothing.
C31_StashIffTrackedLocationNamed ==
  /\ [](op.phase # "idle" =>
          \A i \in 1 .. Len(op.captured) :
            op.docs[i] \in Actors =>
              (DOMAIN op.captured[i] # {} <=>
                 \E f \in Fields : /\ resolvePaths[f] # Null
                                   /\ resolvePaths[f] \in DOMAIN op.updates[i]))
  /\ [][(/\ op.phase = "post"
          /\ op.docs[op.i] \in Actors
          /\ (op.user # GameUserId \/ op.stash = <<>>))
          => (/\ UNCHANGED <<ACTOR_DEBOUNCE, ITEM_DEBOUNCE, timers, flushing>>
              /\ ev'.msg = <<>>)]_vars

\* The acting user's update of a2 named hp with the value hp already had:
\* the stash was written and the update hook opened a bucket.
C31_Witness ==
  /\ ev.type = "insert"
  /\ ev.rec = "a2"
  /\ "hp" \in DOMAIN ev.captured
  /\ docs["a2"] = InitDoc("a2")
  /\ nOps = 1

\* C32: when the acting user deletes an item with item tracking on, the
\* entry of the item leaves the delete stash; if the pre-delete hook had
\* stashed the item, then nothing is posted for an item with quantity 0, the
\* plain line 'deleted <name>' for an item without quantity field or with
\* quantity 1, and otherwise 'q - q -> 0', or the plain line in simple mode.
C32_DeletionLineByQuantity ==
  [][\A item \in Items, isSimple \in BOOLEAN :
       DeleteItem(item, GameUserId, TRUE, isSimple) =>
         LET hasQty == "system.quantity" \in DOMAIN docs[item]
             q      == IF hasQty THEN docs[item]["system.quantity"] ELSE 0
             plain  == [form |-> "deleted", label |-> docs[item]["name"]]
             full   == [form |-> "full", label |-> docs[item]["name"],
                        old |-> q, sign |-> "-", abs |-> q, new |-> 0]
         IN  /\ item \notin DOMAIN ITEM_DELETE_STASH'
             /\ item \in DOMAIN ITEM_DELETE_STASH =>
                  IF hasQty /\ q = 0 THEN ev'.msg = <<>>
                  ELSE /\ Len(ev'.msg) = 1
                       /\ ev'.msg[1].text =
                            IF ~hasQty \/ q <= 1 \/ isSimple THEN plain ELSE full
             /\ item \notin DOMAIN ITEM_DELETE_STASH => ev'.msg = <<>>]_vars

\* A stack of two was deleted: the full line was posted and the stash entry
\* is gone.
C32_Witness ==
  /\ ev.type = "post"
  /\ ev.by = "deleteItem"
  /\ ev.msg[1].text.form = "full"
  /\ ev.msg[1].text.old = 2
  /\ ev.item \notin DOMAIN ITEM_DELETE_STASH
  /\ ev.item \in deleted

\* C33: the notifications for one field of one record chain.  The before
\* value of the next notification for a field is the one an open bucket of
\* the record holds for it, so whenever a notification is posted for a field
\* while a bucket of the record holds a before value for that field, that
\* value is the after value just reported.
C33_NotificationsChain ==
  ev.type \in {"flush", "resume"} =>
    \A m \in Msgs :
      (/\ uuid(ev.rec) \in DOMAIN DebounceOf(ev.rec)
       /\ m.kind \in DOMAIN DebounceOf(ev.rec)[uuid(ev.rec)].old)
        => DebounceOf(ev.rec)[uuid(ev.rec)].old[m.kind] = m.new

\* C34: a record with an entry in its debounce map has exactly one armed
\* timer, the one the entry names; a record without an entry has none.
C34_OneArmedTimerPerBucket ==
  \A r \in Records :
    IF uuid(r) \in DOMAIN DebounceOf(r)
    THEN TimersOf(r) = {DebounceOf(r)[uuid(r)].timer}
    ELSE TimersOf(r) = {}

\* Actor a1 was flushed and has no bucket and no timer, while a2 has an
\* open bucket and the one timer it names.
C34_Witness ==
  /\ nFlush["a1"] = 1
  /\ "a1" \notin DOMAIN ACTOR_DEBOUNCE
  /\ "a2" \in DOMAIN ACTOR_DEBOUNCE
  /\ "a2" \in DOMAIN burst
  /\ burst["a2"].resets = 0
  /\ TimersOf("a2") = {ACTOR_DEBOUNCE["a2"].timer}
  /\ TimersOf("a1") = {}

\* C35: once the deletion of an item has been notified (the item is deleted
\* and its quantity was not 0), no flush posts a quantity or rename line
\* for that item.
C35_NothingAfterDeletionLine ==
  (/\ ev.type \in {"flush", "resume"}
   /\ ev.rec \in Items
   /\ ev.rec \in deleted
   /\ docs[ev.rec]["system.quantity"] # 0) => ev.msg = <<>>

\* C36: the before value of every line a flush posts for an actor is the
\* value that the location its after value is read from had when the
\* mutation was captured.
C36_BeforeAndAfterFromOneLocation ==
  (ev.type \in {"flush", "resume"} /\ ev.rec \in Actors) =>
    \A i \in 1 .. Len(ev.msg) :
      ev.msg[i].old = readNumber(ev.burst.first, resolvePaths[ev.msg[i].kind])

\* C37: the entry the update hook of an item takes from ITEM_UPDATE_STASH is
\* the one the pre-update hook of the same mutation captured.
C37_StashEntryOfSameMutation ==
  (ev.type = "insert" /\ ev.rec \in Items) => ev.payload = ev.captured

\* C38: clipping a clipped name returns it unchanged, and a clipped name has
\* at most the budget of code points, hence at most the budget of whole
\* characters (a combining mark joins the character before it), besides the
\* one-character ellipsis marker.
C38_ClipIdempotentAndBounded ==
  ev.type = "reclip" =>
    LET points == ArrayFrom(ev.first)
    IN  /\ ev.out = ev.first
        /\ Len(points) <= MaxNameChars + 1
        /\ Cardinality({i \in 1 .. Len(points) : points[i] # <<"m">>})
             <= MaxNameChars + 1

\* A name longer than the budget that holds an astral symbol was clipped,
\* and clipping the result again returned the same string.
C38_Witness ==
  /\ ev.type = "reclip"
  /\ Len(Flatten(ev.label.chars)) > MaxNameChars
  /\ \E i \in 1 .. Len(ev.label.chars) : ev.label.chars[i] = Astral
  /\ Len(ArrayFrom(ev.first)) = MaxNameChars + 1
  /\ ev.first[Len(ev.first)] = "..."
  /\ ev.out = ev.first

\* C39: the records change only when the host commits an operation, and then
\* to exactly what the operation proposed; while the hooks of an operation
\* run, its documents, its change sets and its user stay as requested, and
\* no pre-update hook ends the operation.
C39_ReadOnlyObserver ==
  [][/\ docs' # docs =>
          /\ op.phase = "commit"
          /\ op'.phase = "post"
          /\ \A r \in Records : \A p \in DOMAIN docs[r] :
               docs'[r][p] =
                 IF \E i \in 1 .. Len(op.docs) :
                      op.docs[i] = r /\ p \in DOMAIN op.updates[i]
                 THEN LET i == CHOOSE i \in 1 .. Len(op.docs) : op.docs[i] = r
                      IN  op.updates[i][p]
                 ELSE docs[r][p]
     /\ op.phase \in {"pre", "commit"} =>
          /\ op'.phase # "idle"
          /\ op'.docs = op.docs
          /\ op'.updates = op.updates
          /\ op'.user = op.user
     /\ (op.phase = "post" /\ op'.phase = "post") =>
          /\ op'.docs = op.docs
          /\ op'.updates = op.updates
          /\ op'.user = op.user]_vars

\* A flush posted a line for an actor whose record is still what the host
\* committed last, although the pre-update hook stashed a before value.
C39_Witness ==
  /\ ev.type = "flush"
  /\ ev.rec \in Actors
  /\ ev.msg # <<>>
  /\ ev.data # EmptyMap
  /\ docs[ev.rec] = ev.burst.last
  /\ docs[ev.rec] # InitDoc(ev.rec)

\* C10: a full-mode numeric line shows old, sign, magnitude and new, with
\* sign "+" iff new - old > 0, a positive magnitude, and old plus the signed
\* magnitude equal to new.
C10_FullLineArithmetic ==
  \A m \in Msgs :
    m.text.form = "full" =>
      /\ m.text.old = m.old /\ m.text.new = m.new
      /\ m.old # m.new
      /\ m.text.sign \in {"+", "-"}
      /\ (m.text.sign = "+") <=> (m.new - m.old > 0)
      /\ m.text.abs > 0
      /\ m.text.sign = "+" => m.old + m.text.abs = m.new
      /\ m.text.sign = "-" => m.old - m.text.abs = m.new

C10_Witness ==
  \E m \in Msgs : m.text.form = "full" /\ m.text.sign = "-" /\ m.text.abs > 1

====
